---- MODULE Spec2Model ----
(***************************************************************************)
(* Model of the chess repertoire trainer: the move tree and its edit       *)
(* operations (utils/repertoire-tree), the PGN variation parser            *)
(* (utils/pgn-parser) and the SM-2 scheduler (utils/sm2).                  *)
(***************************************************************************)
EXTENDS Integers, Sequences, FiniteSets, TLC

(***************************************************************************)
(* Bounds of the model.                                                    *)
(***************************************************************************)
MaxIds == 3
\* reviews of one card
MaxReviews == 4
\* arguments sm2 is called with directly
MaxReps == 2
MaxInterval == 6
MaxEase == 300
\* length of the movetexts enumerated in full
MaxTokens == 3
\* tree references held at once by callers of the tree operations
MaxHeld == 4
\* ids the repertoire store may generate
MaxStoreIds == 3
\* lines of a multi-game file
MaxLines == 4
\* counts deriveQuality is called with
MaxMistakes == 9
MaxHints == 9
MaxPly == 2
MaxDrillLines == 2
MaxDrillMistakes == 1
MaxGames == 2

(***************************************************************************)
(* Values shared by all parts.                                             *)
(***************************************************************************)
\* parentId: string | null -- null is modelled as NoId, ids are 1, 2, ...
NoId == 0
\* the sentinel promoteVariation accepts for the root list ('__root__')
RootSentinel == -1
\* a position is the sequence of moves played from the starting position
STARTING_FEN == <<>>
\* a comment is the sequence of its words, '' is <<>>
\* notations the tree-edit operations are called with
TreeSans == {"e4", "e5"}

VARIABLES tree, nextId, op, prev, mergeResult, orphaned, path

\* the scheduler: one SRS card, the last sm2 input and what sm2 returned for it
VARIABLES card, call, result

\* the parser: the movetext given to parseGame, its tokens, the shared cursor
\* pos.idx, the active parseTokens / parseVariation calls (innermost last), the
\* id generator, how far parseGame got, and whether chess.move throws on an
\* illegal move
VARIABLES pgnText, tokens, posIdx, stack, genId, pstate, moveThrows

\* object identity: the heap of tree, node and array objects, the tree
\* references handed out so far with the value each had when it was obtained,
\* and the last call made
VARIABLES heap, held, heapOp

\* the repertoire store: one repertoire's tree, the lines stored for it, the
\* next id generateId returns, and the last store operation
VARIABLES repTree, repLines, storeId, storeOp

\* parseMultiGamePGN: the file's lines, the games splitPGN returned, the loop
\* index, the games returned and what parseGame did for each game
VARIABLES fileLines, games, gameIdx, parsed, outcomes, bstate

\* deriveQuality: the last call and what it returned
VARIABLES derived

\* a drill session: the drill store's fields, the page's waitingForOpponent
\* state, what the page last rendered (the values its handlers and effects
\* close over), whether the auto-play effect's last run returned a cleanup,
\* the pending auto-play timer and the pending feedback timers
VARIABLES drillStatus, currentLine, currentPlyIndex, mistakeCount, linesCompleted,
          linesRemaining, sessionResults, userColor, lineLength,
          waitingForOpponent, rendered, cleanupSet, autoPlayTimer, feedbackTimers

\* the repertoires that exist and the SRS cards
VARIABLES repertoires, cards

treeVars == <<tree, nextId, op, prev, mergeResult, orphaned, path>>
srsVars == <<card, call, result>>
parseVars == <<pgnText, tokens, posIdx, stack, genId, pstate, moveThrows>>
heapVars == <<heap, held, heapOp>>
storeVars == <<repTree, repLines, storeId, storeOp>>
batchVars == <<fileLines, games, gameIdx, parsed, outcomes, bstate>>
drillVars == <<drillStatus, currentLine, currentPlyIndex, mistakeCount, linesCompleted,
               linesRemaining, sessionResults, userColor, lineLength,
               waitingForOpponent, rendered, cleanupSet, autoPlayTimer, feedbackTimers>>
pageVars == <<repertoires, cards>>
vars == <<treeVars, srsVars, parseVars, heapVars, storeVars, batchVars, derived,
          drillVars, pageVars>>

\* what the operations of one component leave alone
NotTree == <<srsVars, parseVars, heapVars, storeVars, batchVars, derived, drillVars, pageVars>>
NotSrs == <<treeVars, parseVars, heapVars, storeVars, batchVars, drillVars, pageVars>>
NotParse == <<treeVars, srsVars, heapVars, storeVars, drillVars, pageVars>>
NotHeap == <<treeVars, srsVars, parseVars, storeVars, batchVars, derived, drillVars, pageVars>>
NotStore == <<treeVars, srsVars, parseVars, heapVars, batchVars, derived, drillVars, pageVars>>
NotDrill == <<treeVars, srsVars, parseVars, heapVars, storeVars, batchVars, derived, pageVars>>
NotPage == <<treeVars, srsVars, parseVars, heapVars, batchVars, derived, drillVars>>

(***************************************************************************)
(* Sequence helpers (Array.prototype methods used by the code).            *)
(***************************************************************************)
Last(s) == s[Len(s)]
Front(s) == SubSeq(s, 1, Len(s) - 1)

\* Array.findIndex: the first index whose element has the id, 0 if none
FindIndex(children, id) ==
    IF \E i \in 1..Len(children) : children[i].id = id
    THEN CHOOSE i \in 1..Len(children) :
            /\ children[i].id = id
            /\ \A j \in 1..(i - 1) : children[j].id # id
    ELSE 0

\* the sequence without its i-th element (Array.splice(i, 1))
RemoveAt(s, i) == SubSeq(s, 1, i - 1) \o SubSeq(s, i + 1, Len(s))

RECURSIVE FilterNotId(_, _)
FilterNotId(children, id) ==
    IF children = <<>> THEN <<>>
    ELSE IF Head(children).id = id THEN FilterNotId(Tail(children), id)
    ELSE <<Head(children)>> \o FilterNotId(Tail(children), id)

(***************************************************************************)
(* repertoire-tree: lookup.                                                *)
(***************************************************************************)
\* index path to the first node with the id in depth-first pre-order,
\* <<>> when no node has it
RECURSIVE FindPathFrom(_, _, _)
FindPathFrom(children, id, i) ==
    IF i > Len(children) THEN <<>>
    ELSE IF children[i].id = id THEN <<i>>
    ELSE LET sub == FindPathFrom(children[i].children, id, 1)
         IN IF sub # <<>> THEN <<i>> \o sub
            ELSE FindPathFrom(children, id, i + 1)

FindPath(children, id) == FindPathFrom(children, id, 1)

RECURSIVE NodeAt(_, _)
NodeAt(children, p) ==
    IF Len(p) = 1 THEN children[p[1]]
    ELSE NodeAt(children[p[1]].children, Tail(p))

\* findNode(tree, nodeId) # null
HasNode(t, id) == FindPath(t.children, id) # <<>>

\* findNode(tree, nodeId), for an id that is found
findNode(t, id) == NodeAt(t.children, FindPath(t.children, id))

\* the forest with the node at path p replaced (an in-place write through the
\* reference findNode returned)
RECURSIVE ReplaceAt(_, _, _)
ReplaceAt(children, p, node) ==
    IF Len(p) = 1 THEN [children EXCEPT ![p[1]] = node]
    ELSE [children EXCEPT ![p[1]] =
            [@ EXCEPT !.children = ReplaceAt(@, Tail(p), node)]]

(***************************************************************************)
(* repertoire-tree: deepCloneTree.                                         *)
(***************************************************************************)
RECURSIVE deepCloneNode(_)
deepCloneNode(node) ==
    [node EXCEPT !.arrows = [i \in 1..Len(node.arrows) |-> node.arrows[i]],
                 !.highlights = [i \in 1..Len(node.highlights) |-> node.highlights[i]],
                 !.nags = [i \in 1..Len(node.nags) |-> node.nags[i]],
                 !.children = [i \in 1..Len(node.children) |->
                                    deepCloneNode(node.children[i])]]

deepCloneTree(t) ==
    [rootFen |-> t.rootFen,
     children |-> [i \in 1..Len(t.children) |-> deepCloneNode(t.children[i])]]

(***************************************************************************)
(* repertoire-tree: insertMove.                                            *)
(***************************************************************************)
NewMoveNode(id, san, fen, parentId, moveNumber, plyFromRoot) ==
    [id |-> id, san |-> san, fen |-> fen, parentId |-> parentId,
     children |-> <<>>, comment |-> <<>>, arrows |-> <<>>, highlights |-> <<>>,
     nags |-> <<>>, isMainline |-> FALSE, moveNumber |-> moveNumber,
     plyFromRoot |-> plyFromRoot, openingName |-> ""]

\* mutant: the parent is ignored and the node is appended to the root list
insertMove_AtRoot(t, parentId, san, fen, moveNumber, plyFromRoot, id) ==
    LET n == [NewMoveNode(id, san, fen, parentId, moveNumber, plyFromRoot)
                EXCEPT !.isMainline = (Len(t.children) = 0)]
    IN [tree |-> [t EXCEPT !.children = Append(t.children, n)], newNode |-> n]

insertMove(t, parentId, san, fen, moveNumber, plyFromRoot, id) ==
    LET newNode == NewMoveNode(id, san, fen, parentId, moveNumber, plyFromRoot)
    IN IF parentId = NoId
       THEN LET n == [newNode EXCEPT !.isMainline = (Len(t.children) = 0)]
            IN [tree |-> [t EXCEPT !.children = Append(t.children, n)],
                newNode |-> n]
       ELSE LET newTree == deepCloneTree(t)
                p == FindPath(newTree.children, parentId)
            IN IF p # <<>>
               THEN LET parent == NodeAt(newTree.children, p)
                        n == [newNode EXCEPT
                                !.isMainline = (Len(parent.children) = 0)]
                        parent2 == [parent EXCEPT
                                !.children = Append(parent.children, n)]
                    IN [tree |-> [newTree EXCEPT
                                !.children = ReplaceAt(newTree.children, p, parent2)],
                        newNode |-> n]
               ELSE [tree |-> newTree, newNode |-> newNode]

(***************************************************************************)
(* repertoire-tree: deleteSubtree.                                         *)
(***************************************************************************)
RECURSIVE removeFromChildren(_, _)
\* mutant: the filter keeps the node with the id instead of dropping it
removeFromChildren_Inverted(children, nodeId) ==
    LET kept == SelectSeq(children, LAMBDA c : c.id = nodeId)
    IN [i \in 1..Len(kept) |->
            [kept[i] EXCEPT !.children = removeFromChildren(kept[i].children, nodeId)]]

removeFromChildren(children, nodeId) ==
    LET kept == FilterNotId(children, nodeId)
    IN [i \in 1..Len(kept) |->
            [kept[i] EXCEPT !.children = removeFromChildren(kept[i].children, nodeId)]]

\* mutant: the first remaining root child is flagged as the mainline
deleteSubtree_Promotes(t, nodeId) ==
    LET newTree == deepCloneTree(t)
        kept == removeFromChildren(newTree.children, nodeId)
    IN [newTree EXCEPT !.children =
            IF kept = <<>> THEN kept
            ELSE [kept EXCEPT ![1] = [@ EXCEPT !.isMainline = TRUE]]]

deleteSubtree(t, nodeId) ==
    LET newTree == deepCloneTree(t)
    IN [newTree EXCEPT !.children = removeFromChildren(newTree.children, nodeId)]

(***************************************************************************)
(* repertoire-tree: promoteVariation.                                      *)
(***************************************************************************)
\* mutant: the former first child keeps its flag
PromoteIn_KeepFlag(children, childId) ==
    LET idx == FindIndex(children, childId)
    IN IF idx > 1
       THEN <<[children[idx] EXCEPT !.isMainline = TRUE]>> \o RemoveAt(children, idx)
       ELSE children

\* mutant: the promoted child trades places with the first child
PromoteIn_Swap(children, childId) ==
    LET idx == FindIndex(children, childId)
    IN IF idx > 1
       THEN [children EXCEPT ![1] = [children[idx] EXCEPT !.isMainline = TRUE],
                             ![idx] = [children[1] EXCEPT !.isMainline = FALSE]]
       ELSE children

\* the splice / flag / unshift sequence applied to one children array
PromoteIn(children, childId) ==
    LET idx == FindIndex(children, childId)
    IN IF idx > 1
       THEN LET promoted == [children[idx] EXCEPT !.isMainline = TRUE]
                rest == RemoveAt(children, idx)
                rest2 == [rest EXCEPT ![1] = [@ EXCEPT !.isMainline = FALSE]]
            IN <<promoted>> \o rest2
       ELSE children

\* mutant: only the root list is reordered
promoteVariation_RootOnly(t, parentId, childId) ==
    LET newTree == deepCloneTree(t)
    IN IF parentId = RootSentinel
       THEN [newTree EXCEPT !.children = PromoteIn(newTree.children, childId)]
       ELSE newTree

promoteVariation(t, parentId, childId) ==
    LET newTree == deepCloneTree(t)
    IN IF parentId = RootSentinel
       THEN [newTree EXCEPT !.children = PromoteIn(newTree.children, childId)]
       ELSE LET p == FindPath(newTree.children, parentId)
            IN IF p # <<>>
               THEN LET parent == NodeAt(newTree.children, p)
                        parent2 == [parent EXCEPT
                                !.children = PromoteIn(parent.children, childId)]
                    IN [newTree EXCEPT
                            !.children = ReplaceAt(newTree.children, p, parent2)]
               ELSE newTree

(***************************************************************************)
(* repertoire-tree: extractAllLines.                                       *)
(***************************************************************************)
RECURSIVE findOpeningNameFrom(_, _)
findOpeningNameFrom(nodePath, i) ==
    IF i < 1 THEN ""
    ELSE IF nodePath[i].openingName # "" THEN nodePath[i].openingName
    ELSE findOpeningNameFrom(nodePath, i - 1)

findOpeningName(nodePath) == findOpeningNameFrom(nodePath, Len(nodePath))

\* formatLineName: the first six moves, White's with their move number, and
\* whether ' ...' follows; number 0 stands for no number
formatLineName(nodePath) ==
    [moves |-> [i \in 1..(IF Len(nodePath) > 6 THEN 6 ELSE Len(nodePath)) |->
                    [number |-> IF i % 2 = 1 THEN nodePath[i].moveNumber ELSE 0,
                     san |-> nodePath[i].san]],
     more |-> Len(nodePath) > 6]

\* openingName || formatLineName(currentPath)
DisplayName(openingName, nodePath) ==
    IF openingName # "" THEN [name |-> openingName, moves |-> <<>>, more |-> FALSE]
    ELSE [name |-> ""] @@ formatLineName(nodePath)

RECURSIVE walkLines(_, _)
RECURSIVE walkChildren(_, _, _)
walkLines(node, nodePath) ==
    LET currentPath == Append(nodePath, node)
    IN IF Len(node.children) = 0
       THEN << [moveNodeIds |-> [i \in 1..Len(currentPath) |-> currentPath[i].id],
                sanSequence |-> [i \in 1..Len(currentPath) |-> currentPath[i].san],
                displayName |-> DisplayName(findOpeningName(currentPath), currentPath),
                terminalFen |-> node.fen,
                openingName |-> findOpeningName(currentPath)] >>
       ELSE walkChildren(node.children, currentPath, 1)

\* mutant: only the first child of a node is walked
walkChildren_FirstOnly(children, nodePath, i) ==
    IF i > Len(children) THEN <<>>
    ELSE walkLines(children[i], nodePath)

walkChildren(children, nodePath, i) ==
    IF i > Len(children) THEN <<>>
    ELSE walkLines(children[i], nodePath) \o walkChildren(children, nodePath, i + 1)

extractAllLines(t) == walkChildren(t.children, <<>>, 1)

RECURSIVE countLinesIn(_)
countLinesIn(children) ==
    IF children = <<>> THEN 0
    ELSE (IF Len(Head(children).children) = 0 THEN 1
          ELSE countLinesIn(Head(children).children))
         + countLinesIn(Tail(children))

countLines(t) == countLinesIn(t.children)

(***************************************************************************)
(* repertoire-tree: mergeTrees.                                            *)
(***************************************************************************)
\* Array.find(c => c.san === san): index of the first match, 0 if none
FindSan(children, san) ==
    IF \E i \in 1..Len(children) : children[i].san = san
    THEN CHOOSE i \in 1..Len(children) :
            /\ children[i].san = san
            /\ \A j \in 1..(i - 1) : children[j].san # san
    ELSE 0

RECURSIVE mergeChildren(_, _)
RECURSIVE mergeLoop(_, _, _)
\* the for-loop over importedChildren, from its i-th element
mergeLoop(merged, importedChildren, i) ==
    IF i > Len(importedChildren) THEN merged
    ELSE LET impChild == importedChildren[i]
             m == FindSan(merged, impChild.san)
         IN IF m # 0
            THEN LET match == merged[m]
                     c1 == [match EXCEPT !.children =
                                mergeChildren(match.children, impChild.children)]
                     c2 == IF impChild.comment # <<>> /\ c1.comment = <<>>
                           THEN [c1 EXCEPT !.comment = impChild.comment] ELSE c1
                     c3 == IF Len(impChild.arrows) > 0 /\ Len(c2.arrows) = 0
                           THEN [c2 EXCEPT !.arrows = impChild.arrows] ELSE c2
                     c4 == IF Len(impChild.highlights) > 0 /\ Len(c3.highlights) = 0
                           THEN [c3 EXCEPT !.highlights = impChild.highlights] ELSE c3
                 IN mergeLoop([merged EXCEPT ![m] = c4], importedChildren, i + 1)
            ELSE mergeLoop(Append(merged, [impChild EXCEPT !.isMainline = FALSE]),
                           importedChildren, i + 1)

\* mutant: no child is matched, every imported child is appended
mergeChildren_AppendAll(existingChildren, importedChildren) ==
    existingChildren \o [i \in 1..Len(importedChildren) |->
                            [importedChildren[i] EXCEPT !.isMainline = FALSE]]

mergeChildren(existingChildren, importedChildren) ==
    mergeLoop(existingChildren, importedChildren, 1)

mergeTrees(existing, imported) ==
    [existing EXCEPT !.children = mergeChildren(existing.children, imported.children)]

(***************************************************************************)
(* Tree walks used to state properties.                                    *)
(***************************************************************************)
RECURSIVE NodeIdsOf(_)
NodeIdsOf(children) ==
    UNION { {children[i].id} \cup NodeIdsOf(children[i].children) :
                i \in 1..Len(children) }

\* every sibling group of the forest: the list itself and every node's children
RECURSIVE SiblingGroups(_)
SiblingGroups(children) ==
    {children} \cup UNION { SiblingGroups(children[i].children) :
                                i \in 1..Len(children) }

RECURSIVE CountNodes(_)
CountNodes(children) ==
    IF children = <<>> THEN 0
    ELSE 1 + CountNodes(Head(children).children) + CountNodes(Tail(children))

(***************************************************************************)
(* sm2: the SM-2 algorithm.  Ease factors are kept in hundredths (2.5 is   *)
(* 250), so the update 0.1 - (5-q)*(0.08 + (5-q)*0.02) is                  *)
(* 10 - (5-q)*(8 + (5-q)*2), and the arithmetic is exact.                  *)
(***************************************************************************)
SM2_DEFAULT_EASE_FACTOR == 250
SM2_MIN_EASE_FACTOR == 130
SM2_FIRST_INTERVAL == 1
SM2_SECOND_INTERVAL == 6

\* Math.round(n / d) for n >= 0: halves round up
RoundDiv(n, d) == (2 * n + d) \div (2 * d)

\* mutant: the interval is scaled by the updated ease factor
sm2_UpdatedEase(input) ==
    LET quality == input.quality
        raw == input.easeFactor + (10 - (5 - quality) * (8 + (5 - quality) * 2))
        newEaseFactor == IF raw < SM2_MIN_EASE_FACTOR THEN SM2_MIN_EASE_FACTOR ELSE raw
    IN IF quality >= 3
       THEN [interval |-> IF input.repetitions = 0 THEN SM2_FIRST_INTERVAL
                          ELSE IF input.repetitions = 1 THEN SM2_SECOND_INTERVAL
                          ELSE RoundDiv(input.interval * newEaseFactor, 100),
             repetitions |-> input.repetitions + 1,
             easeFactor |-> newEaseFactor]
       ELSE [interval |-> SM2_FIRST_INTERVAL, repetitions |-> 0,
             easeFactor |-> newEaseFactor]

\* mutant: the ease factor is not held at the minimum
sm2_NoFloor(input) ==
    LET quality == input.quality
        newEaseFactor ==
            input.easeFactor + (10 - (5 - quality) * (8 + (5 - quality) * 2))
    IN IF quality >= 3
       THEN [interval |-> IF input.repetitions = 0 THEN SM2_FIRST_INTERVAL
                          ELSE IF input.repetitions = 1 THEN SM2_SECOND_INTERVAL
                          ELSE RoundDiv(input.interval * input.easeFactor, 100),
             repetitions |-> input.repetitions + 1,
             easeFactor |-> newEaseFactor]
       ELSE [interval |-> SM2_FIRST_INTERVAL, repetitions |-> 0,
             easeFactor |-> newEaseFactor]

sm2(input) ==
    LET quality == input.quality
        raw == input.easeFactor + (10 - (5 - quality) * (8 + (5 - quality) * 2))
        newEaseFactor == IF raw < SM2_MIN_EASE_FACTOR THEN SM2_MIN_EASE_FACTOR ELSE raw
    IN IF quality >= 3
       THEN [interval |-> IF input.repetitions = 0 THEN SM2_FIRST_INTERVAL
                          ELSE IF input.repetitions = 1 THEN SM2_SECOND_INTERVAL
                          ELSE RoundDiv(input.interval * input.easeFactor, 100),
             repetitions |-> input.repetitions + 1,
             easeFactor |-> newEaseFactor]
       ELSE [interval |-> SM2_FIRST_INTERVAL, repetitions |-> 0,
             easeFactor |-> newEaseFactor]

(***************************************************************************)
(* The SRS store: a card and its reviews.  dueOffset is the number of days *)
(* between lastReviewDate and nextReviewDate.                              *)
(***************************************************************************)
Qualities == 0..5
\* Math.random(), in hundredths
RandomDraws == {0, 50, 99}

NewCard ==
    [easeFactor |-> SM2_DEFAULT_EASE_FACTOR, interval |-> 0, repetitions |-> 0,
     dueOffset |-> 0, totalReviews |-> 0, correctCount |-> 0,
     incorrectCount |-> 0, streak |-> 0, bestStreak |-> 0]
NoCall == [quality |-> 0, repetitions |-> 0, easeFactor |-> 0, interval |-> 0]
NoResult == [interval |-> 0, repetitions |-> 0, easeFactor |-> 0]

SrsInit ==
    /\ card = NewCard
    /\ call = NoCall
    /\ result = NoResult

\* sm2 has been called: no input has ease factor 0
Called == call.easeFactor > 0

\* mutant: the interval stored is the fuzzed one
ProcessReview_StoresFuzz ==
    /\ card.totalReviews < MaxReviews
    /\ \E quality \in Qualities, random \in RandomDraws :
        LET input == [quality |-> quality, repetitions |-> card.repetitions,
                      easeFactor |-> card.easeFactor, interval |-> card.interval]
            r == sm2(input)
            \* result.interval * (0.95 + Math.random() * 0.1), times 1000
            fuzz == IF r.interval > 1 THEN r.interval * (950 + random)
                    ELSE r.interval * 1000
            isCorrect == quality >= 3
            newStreak == IF isCorrect THEN card.streak + 1 ELSE 0
        IN /\ call' = input
           /\ result' = r
           /\ card' = [easeFactor |-> r.easeFactor,
                       interval |-> RoundDiv(fuzz, 1000),
                       repetitions |-> r.repetitions,
                       dueOffset |-> RoundDiv(fuzz, 1000),
                       totalReviews |-> card.totalReviews + 1,
                       correctCount |-> card.correctCount + (IF isCorrect THEN 1 ELSE 0),
                       incorrectCount |-> card.incorrectCount + (IF isCorrect THEN 0 ELSE 1),
                       streak |-> newStreak,
                       bestStreak |-> IF card.bestStreak > newStreak
                                      THEN card.bestStreak ELSE newStreak]
    /\ UNCHANGED <<derived, NotSrs>>

ProcessReview ==
    /\ card.totalReviews < MaxReviews
    /\ \E quality \in Qualities, random \in RandomDraws :
        LET input == [quality |-> quality, repetitions |-> card.repetitions,
                      easeFactor |-> card.easeFactor, interval |-> card.interval]
            r == sm2(input)
            \* result.interval * (0.95 + Math.random() * 0.1), times 1000
            fuzz == IF r.interval > 1 THEN r.interval * (950 + random)
                    ELSE r.interval * 1000
            isCorrect == quality >= 3
            newStreak == IF isCorrect THEN card.streak + 1 ELSE 0
        IN /\ call' = input
           /\ result' = r
           /\ card' = [easeFactor |-> r.easeFactor,
                       interval |-> r.interval,
                       repetitions |-> r.repetitions,
                       dueOffset |-> RoundDiv(fuzz, 1000),
                       totalReviews |-> card.totalReviews + 1,
                       correctCount |-> card.correctCount + (IF isCorrect THEN 1 ELSE 0),
                       incorrectCount |-> card.incorrectCount + (IF isCorrect THEN 0 ELSE 1),
                       streak |-> newStreak,
                       bestStreak |-> IF card.bestStreak > newStreak
                                      THEN card.bestStreak ELSE newStreak]
    /\ UNCHANGED <<derived, NotSrs>>

\* sm2 called directly on arbitrary arguments, before the card is reviewed
Sm2Call ==
    /\ card = NewCard
    /\ call = NoCall
    /\ \E quality \in Qualities, repetitions \in 0..MaxReps,
          easeFactor \in SM2_MIN_EASE_FACTOR..MaxEase, interval \in 0..MaxInterval :
        LET input == [quality |-> quality, repetitions |-> repetitions,
                      easeFactor |-> easeFactor, interval |-> interval]
        IN /\ call' = input
           /\ result' = sm2(input)
    /\ UNCHANGED <<card, derived, NotSrs>>

(***************************************************************************)
(* chess.js as the parser uses it.  A Chess instance holds a position and  *)
(* the positions it passed through since it was created or loaded.  The    *)
(* rules are those of games made of the moves below: White moves on even   *)
(* plies, Black on odd ones, and no move can be played twice.              *)
(***************************************************************************)
WhiteMoves == {"e4", "Nf3"}
BlackMoves == {"e5", "c5"}
Moves == WhiteMoves \cup BlackMoves

InSeq(x, seq) == \E i \in 1..Len(seq) : seq[i] = x

Legal(fen, san) ==
    /\ san \in (IF Len(fen) % 2 = 0 THEN WhiteMoves ELSE BlackMoves)
    /\ ~InSeq(san, fen)

\* new Chess(fen)
NewChess(fen) == [fen |-> fen, history |-> <<>>]

\* chess.move(san), for a legal move
ChessMove(chess, san) ==
    [fen |-> Append(chess.fen, san), history |-> Append(chess.history, chess.fen)]

\* chess.undo(): takes back the last move made on this instance, if any
ChessUndo(chess) ==
    IF chess.history = <<>> THEN chess
    ELSE [fen |-> Last(chess.history), history |-> Front(chess.history)]

\* chess.load(fen): sets the position and clears the history
ChessLoad(chess, fen) == [fen |-> fen, history |-> <<>>]

(***************************************************************************)
(* pgn-parser: from the movetext to tokens.  A movetext is a sequence of   *)
(* lexemes: words, and {...} comments made of free text and bracket        *)
(* directives.                                                             *)
(***************************************************************************)
Word(text) == [kind |-> "word", text |-> text, parts |-> <<>>]
Brace(parts) == [kind |-> "brace", text |-> "", parts |-> parts]
TextPart(items) == [kind |-> "text", items |-> items]
CalPart(items) == [kind |-> "cal", items |-> items]
CslPart(items) == [kind |-> "csl", items |-> items]

RECURSIVE SelectSeq2(_, _)
\* Array.filter with the predicate given as the set of elements kept
SelectSeq2(seq, keep) ==
    IF seq = <<>> THEN <<>>
    ELSE IF Head(seq) \in keep THEN <<Head(seq)>> \o SelectSeq2(Tail(seq), keep)
    ELSE SelectSeq2(Tail(seq), keep)

RangeOf(seq) == {seq[i] : i \in 1..Len(seq)}

\* parseGame: pgnText.replace(/\[[^\]]*\]/g, '') removes every bracketed span
StripBrackets(text) ==
    [i \in 1..Len(text) |->
        IF text[i].kind = "brace"
        THEN Brace(SelectSeq2(text[i].parts,
                              {q \in RangeOf(text[i].parts) : q.kind = "text"}))
        ELSE text[i]]

\* preprocessPGN: removes the Z0 words, then the comments left empty
preprocessPGN(text) ==
    SelectSeq2(text, {l \in RangeOf(text) :
                        /\ ~(l.kind = "word" /\ l.text = "Z0")
                        /\ ~(l.kind = "brace" /\ l.parts = <<>>)})

Token(type, value, num, parts) ==
    [type |-> type, value |-> value, num |-> num, parts |-> parts]

\* the tokens one lexeme yields
TokensOf(l) ==
    IF l.kind = "brace"
    THEN IF l.parts = <<>> THEN <<>> ELSE <<Token("comment", "", 0, l.parts)>>
    ELSE IF l.text = "(" THEN <<Token("openParen", "", 0, <<>>)>>
    ELSE IF l.text = ")" THEN <<Token("closeParen", "", 0, <<>>)>>
    ELSE IF l.text = "$1" THEN <<Token("nag", "", 1, <<>>)>>
    ELSE IF l.text = "*" THEN <<Token("result", "*", 0, <<>>)>>
    ELSE IF l.text = "1." THEN <<Token("moveNumber", "1.", 0, <<>>)>>
    ELSE IF l.text \in Moves THEN <<Token("move", l.text, 0, <<>>)>>
    ELSE <<>>

RECURSIVE tokenize(_)
tokenize(text) ==
    IF text = <<>> THEN <<>> ELSE TokensOf(Head(text)) \o tokenize(Tail(text))

RECURSIVE ItemsOfKind(_, _)
ItemsOfKind(parts, kind) ==
    IF parts = <<>> THEN <<>>
    ELSE (IF Head(parts).kind = kind THEN Head(parts).items ELSE <<>>)
            \o ItemsOfKind(Tail(parts), kind)

extractAnnotations(comment) ==
    [arrows |-> ItemsOfKind(comment, "cal"),
     highlights |-> ItemsOfKind(comment, "csl"),
     cleanComment |-> ItemsOfKind(comment, "text")]

(***************************************************************************)
(* pgn-parser: parseTokens and parseVariation.  A frame is one active call *)
(* with its locals; savedFen is the position the call saved before it      *)
(* recursed, startFen the position its Chess instance started from.        *)
(***************************************************************************)
GameOpeningName == "Scotch Game"

Frame(kind, chess, parentId) ==
    [kind |-> kind, chess |-> chess, children |-> <<>>, parentId |-> parentId,
     lastNode |-> NoId, pendingNags |-> <<>>, savedFen |-> <<>>,
     startFen |-> chess.fen]

Top == stack[Len(stack)]
SetTop(f) == [stack EXCEPT ![Len(stack)] = f]

\* the node a frame's lastNode refers to
LastNodeOf(f) == NodeAt(f.children, FindPath(f.children, f.lastNode))

\* a write to the node with the id, through the reference the frame holds
UpdateNode(children, id, node) == ReplaceAt(children, FindPath(children, id), node)

\* the legal-move branch of parseTokens
MainMove(f, san, id) ==
    LET chess == ChessMove(f.chess, san)
        currentPly == Len(chess.history)
        first == Len(f.children) = 0 /\ f.lastNode = NoId
        node == [id |-> id, san |-> san, fen |-> chess.fen, parentId |-> f.parentId,
                 children |-> <<>>, comment |-> <<>>, arrows |-> <<>>,
                 highlights |-> <<>>, nags |-> f.pendingNags,
                 isMainline |-> first, moveNumber |-> (currentPly + 1) \div 2,
                 plyFromRoot |-> currentPly,
                 openingName |-> IF first THEN GameOpeningName ELSE ""]
    IN IF f.lastNode # NoId
       THEN LET last == LastNodeOf(f)
                n == [node EXCEPT !.parentId = last.id,
                                  !.isMainline = (Len(last.children) + 1 = 1)]
            IN [f EXCEPT !.chess = chess, !.pendingNags = <<>>, !.lastNode = id,
                         !.children = UpdateNode(f.children, last.id,
                                [last EXCEPT !.children = Append(last.children, n)])]
       ELSE LET n == [node EXCEPT !.isMainline = (Len(f.children) + 1 = 1)]
            IN [f EXCEPT !.chess = chess, !.pendingNags = <<>>, !.lastNode = id,
                         !.children = Append(f.children, n)]

\* the legal-move branch of parseVariation
VariationMove(f, san, id) ==
    LET chess == ChessMove(f.chess, san)
        currentPly == Len(chess.history)
        node == [id |-> id, san |-> san, fen |-> chess.fen,
                 parentId |-> IF f.lastNode # NoId THEN f.lastNode ELSE f.parentId,
                 children |-> <<>>, comment |-> <<>>, arrows |-> <<>>,
                 highlights |-> <<>>, nags |-> f.pendingNags,
                 isMainline |-> FALSE, moveNumber |-> (currentPly + 1) \div 2,
                 plyFromRoot |-> currentPly, openingName |-> ""]
    IN IF f.lastNode # NoId
       THEN LET last == LastNodeOf(f)
                n == [node EXCEPT !.isMainline = (Len(last.children) + 1 = 1)]
            IN [f EXCEPT !.chess = chess, !.pendingNags = <<>>, !.lastNode = id,
                         !.children = UpdateNode(f.children, last.id,
                                [last EXCEPT !.children = Append(last.children, n)])]
       ELSE [f EXCEPT !.chess = chess, !.pendingNags = <<>>, !.lastNode = id,
                      !.children = Append(f.children, node)]

\* the comment branch, for a frame that has a lastNode
AttachComment(f, value) ==
    LET ann == extractAnnotations(value)
        last == LastNodeOf(f)
        l1 == IF ann.cleanComment # <<>>
              THEN [last EXCEPT !.comment = last.comment \o ann.cleanComment]
              ELSE last
        l2 == [l1 EXCEPT !.arrows = last.arrows \o ann.arrows,
                         !.highlights = last.highlights \o ann.highlights]
    IN [f EXCEPT !.children = UpdateNode(f.children, last.id, l2)]

\* the nag branch
AttachNag(f, num) ==
    IF f.lastNode # NoId
    THEN LET last == LastNodeOf(f)
         IN [f EXCEPT !.children = UpdateNode(f.children, last.id,
                            [last EXCEPT !.nags = Append(last.nags, num)])]
    ELSE [f EXCEPT !.pendingNags = Append(f.pendingNags, num)]

\* the open-paren branch of a frame that has a lastNode: the frame's own
\* instance is undone and a new instance is created at its position
OpenVariation(f) ==
    LET undone == ChessUndo(f.chess)
    IN <<[f EXCEPT !.savedFen = f.chess.fen, !.chess = undone],
         Frame("variation", NewChess(undone.fen), LastNodeOf(f).parentId)>>

\* mutant: the caller's position is not restored after the variation
RestorePosition_Skip(chess, savedFen) == chess

\* chess.load(savedFen) after the variation returned
RestorePosition(chess, savedFen) == ChessLoad(chess, savedFen)

\* after parseVariation returned: its nodes become siblings of lastNode and
\* the caller's position is restored
CloseVariation(f, variationChildren) ==
    LET variationParent == LastNodeOf(f).parentId
        p == IF variationParent # NoId THEN FindPath(f.children, variationParent)
             ELSE <<>>
        added == [i \in 1..Len(variationChildren) |->
                    [variationChildren[i] EXCEPT !.isMainline = FALSE]]
        children == IF p # <<>>
                    THEN LET parentNode == NodeAt(f.children, p)
                         IN ReplaceAt(f.children, p,
                                [parentNode EXCEPT !.children = parentNode.children \o added])
                    ELSE f.children \o added
    IN [f EXCEPT !.children = children,
                 !.chess = RestorePosition(f.chess, f.savedFen)]

\* the innermost call returns
ReturnFromScope ==
    IF Len(stack) = 1
    THEN /\ pstate' = "done"
         /\ UNCHANGED stack
    ELSE /\ stack' = Append(SubSeq(stack, 1, Len(stack) - 2),
                            CloseVariation(stack[Len(stack) - 1], Top.children))
         /\ UNCHANGED pstate

Parsing == pstate = "parsing"
AtToken(type) == Parsing /\ posIdx <= Len(tokens) /\ tokens[posIdx].type = type
ParseFrame == <<pgnText, tokens, genId, moveThrows, batchVars, derived, NotParse>>

CloseParenStep ==
    /\ AtToken("closeParen")
    /\ posIdx' = posIdx + 1
    /\ ReturnFromScope
    /\ UNCHANGED ParseFrame

SkipStep ==
    /\ AtToken("result") \/ AtToken("moveNumber")
    /\ posIdx' = posIdx + 1
    /\ UNCHANGED <<stack, pstate, ParseFrame>>

CommentStep ==
    /\ AtToken("comment")
    /\ stack' = IF Top.lastNode # NoId
                THEN SetTop(AttachComment(Top, tokens[posIdx].parts)) ELSE stack
    /\ posIdx' = posIdx + 1
    /\ UNCHANGED <<pstate, ParseFrame>>

NagStep ==
    /\ AtToken("nag")
    /\ stack' = SetTop(AttachNag(Top, tokens[posIdx].num))
    /\ posIdx' = posIdx + 1
    /\ UNCHANGED <<pstate, ParseFrame>>

LegalMoveStep ==
    /\ AtToken("move")
    /\ Legal(Top.chess.fen, tokens[posIdx].value)
    /\ stack' = SetTop(IF Top.kind = "main"
                       THEN MainMove(Top, tokens[posIdx].value, genId)
                       ELSE VariationMove(Top, tokens[posIdx].value, genId))
    /\ genId' = genId + 1
    /\ posIdx' = posIdx + 1
    /\ UNCHANGED <<pstate, pgnText, tokens, moveThrows, batchVars, derived, NotParse>>

\* chess.move returned a falsy result: the token is skipped
IllegalMoveSkipStep ==
    /\ AtToken("move")
    /\ ~Legal(Top.chess.fen, tokens[posIdx].value)
    /\ ~moveThrows
    /\ posIdx' = posIdx + 1
    /\ UNCHANGED <<stack, pstate, ParseFrame>>

\* chess.move threw: no call on the stack catches, parseGame ends with the error
IllegalMoveThrowStep ==
    /\ AtToken("move")
    /\ ~Legal(Top.chess.fen, tokens[posIdx].value)
    /\ moveThrows
    /\ pstate' = "failed"
    /\ UNCHANGED <<posIdx, stack, ParseFrame>>

OpenParenStep ==
    /\ AtToken("openParen")
    /\ posIdx' = posIdx + 1
    /\ stack' = IF Top.lastNode # NoId
                THEN SubSeq(stack, 1, Len(stack) - 1) \o OpenVariation(Top)
                ELSE stack
    /\ UNCHANGED <<pstate, ParseFrame>>

\* pos.posIdx reached tokens.length: the loop of the innermost call ends
EndOfTokensStep ==
    /\ Parsing
    /\ posIdx > Len(tokens)
    /\ ReturnFromScope
    /\ UNCHANGED <<posIdx, ParseFrame>>

\* parseGame's result
ParsedTree == [rootFen |-> STARTING_FEN, children |-> stack[1].children]
moveCount == CountNodes(ParsedTree.children)

(***************************************************************************)
(* The movetexts parsed: every movetext of up to MaxTokens lexemes, and    *)
(* every instance of the templates, where "m" stands for any move.         *)
(***************************************************************************)
PlainComment == Brace(<<TextPart(<<"good">>)>>)
ArrowComment ==
    Brace(<<CalPart(<<"Ge2e4", "Gd2d4">>), CslPart(<<"Rf7">>), TextPart(<<"plan">>)>>)
Lexemes == {Word(w) : w \in Moves \cup {"(", ")", "Z0", "$1", "*", "1."}}
                \cup {PlainComment, ArrowComment}

ShortTexts == UNION {[1..n -> Lexemes] : n \in 0..MaxTokens}

Templates ==
    { <<"m", "m", "(", "m", "m", ")", "m">>,
      <<"m", "m", "Z0", "m", "Z0">>,
      <<"m", "m", "(", "m", ")", "(", "m", ")", "m">>,
      <<"m", "(", "m", "(", "m", ")", "m", ")", "m">> }

Instances(t) ==
    LET holes == {i \in 1..Len(t) : t[i] = "m"}
    IN { [i \in 1..Len(t) |-> Word(IF i \in holes THEN f[i] ELSE t[i])] :
            f \in [holes -> Moves] }

Texts == ShortTexts \cup UNION {Instances(t) : t \in Templates}

ParseInit ==
    /\ pgnText \in Texts
    /\ tokens = tokenize(preprocessPGN(StripBrackets(pgnText)))
    /\ posIdx = 1
    /\ stack = <<Frame("main", NewChess(STARTING_FEN), NoId)>>
    /\ genId = 1
    /\ pstate = "parsing"
    /\ moveThrows \in BOOLEAN

\* the parser is not used
ParseIdle ==
    /\ pgnText = <<>>
    /\ tokens = <<>>
    /\ posIdx = 1
    /\ stack = <<Frame("main", NewChess(STARTING_FEN), NoId)>>
    /\ genId = 1
    /\ pstate = "idle"
    /\ moveThrows = FALSE

(***************************************************************************)
(* sm2: deriveQuality, called on every pair of counts up to the bounds.    *)
(***************************************************************************)
\* mutant: a hint is not looked at
deriveQuality_IgnoresHints(mistakes, hintsUsed) ==
    IF mistakes = 0 THEN 5
    ELSE IF mistakes = 1 THEN 3
    ELSE IF mistakes = 2 THEN 2
    ELSE 1

deriveQuality(mistakes, hintsUsed) ==
    IF mistakes = 0 /\ hintsUsed = 0 THEN 5
    ELSE IF mistakes = 0 /\ hintsUsed > 0 THEN 4
    ELSE IF mistakes = 1 THEN 3
    ELSE IF mistakes = 2 THEN 2
    ELSE 1

NotCalled == -1

DeriveInit ==
    \E mistakes \in 0..MaxMistakes, hintsUsed \in 0..MaxHints :
        derived = [mistakes |-> mistakes, hintsUsed |-> hintsUsed, quality |-> NotCalled]

DeriveQualityCall ==
    /\ derived.mistakes >= 0
    /\ derived.quality = NotCalled
    /\ derived' = [derived EXCEPT !.quality = deriveQuality(derived.mistakes, derived.hintsUsed)]
    /\ UNCHANGED <<NotSrs, srsVars>>

(***************************************************************************)
(* The tree editor: a repertoire tree edited by insertMove, deleteSubtree  *)
(* and promoteVariation.  op is the last call and prev the tree it was     *)
(* given; mergeResult is what the last mergeTrees(tree, tree) call        *)
(* returned;                                                               *)
(* orphaned tells that some deleteSubtree call removed a mainline node     *)
(* that had siblings; path is the notation sequence inserted so far while  *)
(* every call was an insert under the node the previous insert created.    *)
(***************************************************************************)
EmptyTree == [rootFen |-> STARTING_FEN, children |-> <<>>]
NoOp == [name |-> "none", parentId |-> NoId, nodeId |-> NoId, san |-> "", newId |-> NoId]
NoPath == <<"-">>

TreeInit ==
    /\ tree = EmptyTree
    /\ nextId = 1
    /\ op = NoOp
    /\ prev = EmptyTree
    /\ mergeResult = EmptyTree
    /\ orphaned = FALSE
    /\ path = <<>>

\* ids a caller can name: those of the tree, and one that no node has
KnownIds == NodeIdsOf(tree.children)
MissingId == MaxIds + 10

\* the children array a parentId names: the root list for the sentinel (or
\* null), the node's children otherwise, <<>> when the id is not found
GroupOf(t, parentId) ==
    IF parentId \in {RootSentinel, NoId} THEN t.children
    ELSE IF HasNode(t, parentId) THEN findNode(t, parentId).children
    ELSE <<>>

\* the sibling group that holds the node with the id, <<>> when not found
SiblingsOf(t, id) ==
    LET p == FindPath(t.children, id)
    IN IF p = <<>> THEN <<>>
       ELSE IF Len(p) = 1 THEN t.children
       ELSE NodeAt(t.children, Front(p)).children

Record(o) ==
    /\ op' = o
    /\ prev' = tree

\* insertMove called as the repertoire page does: position, move number and
\* ply derived from the selected parent
InsertMoveAct ==
    /\ nextId <= MaxIds
    /\ \E parentId \in KnownIds \cup {NoId, MissingId}, san \in TreeSans :
        LET found == parentId # NoId /\ HasNode(tree, parentId)
            fen == IF found THEN Append(findNode(tree, parentId).fen, san) ELSE <<san>>
            ply == IF found THEN findNode(tree, parentId).plyFromRoot + 1 ELSE 1
            moveNumber == (ply + 1) \div 2
            r == insertMove(tree, parentId, san, fen, moveNumber, ply, nextId)
        IN /\ tree' = r.tree
           /\ nextId' = nextId + 1
           /\ Record([name |-> "insert", parentId |-> parentId, nodeId |-> NoId,
                      san |-> san, newId |-> r.newNode.id])
           /\ path' = IF path # NoPath /\ parentId = op.newId
                      THEN Append(path, san) ELSE NoPath
    /\ mergeResult' = EmptyTree
    /\ UNCHANGED <<orphaned, NotTree>>

DeleteSubtreeAct ==
    /\ \E nodeId \in KnownIds \cup {MissingId} :
        /\ tree' = deleteSubtree(tree, nodeId)
        /\ Record([name |-> "delete", parentId |-> NoId, nodeId |-> nodeId,
                   san |-> "", newId |-> NoId])
        /\ orphaned' = (orphaned \/ (/\ HasNode(tree, nodeId)
                                     /\ findNode(tree, nodeId).isMainline
                                     /\ Len(SiblingsOf(tree, nodeId)) > 1))
    /\ path' = NoPath
    /\ mergeResult' = EmptyTree
    /\ UNCHANGED <<nextId, NotTree>>

PromoteVariationAct ==
    /\ \E parentId \in KnownIds \cup {RootSentinel, MissingId},
          childId \in KnownIds \cup {MissingId} :
        /\ tree' = promoteVariation(tree, parentId, childId)
        /\ Record([name |-> "promote", parentId |-> parentId, nodeId |-> childId,
                   san |-> "", newId |-> NoId])
    /\ path' = NoPath
    /\ mergeResult' = EmptyTree
    /\ UNCHANGED <<nextId, orphaned, NotTree>>

\* mergeTrees applied to the tree and itself; the tree is not replaced
MergeSelfAct ==
    /\ op.name # "mergeSelf"
    /\ mergeResult' = mergeTrees(tree, tree)
    /\ Record([name |-> "mergeSelf", parentId |-> NoId, nodeId |-> NoId,
               san |-> "", newId |-> NoId])
    /\ path' = NoPath
    /\ UNCHANGED <<tree, nextId, orphaned, NotTree>>

(***************************************************************************)
(* repertoire-tree on objects.  The operations above say which tree value  *)
(* a call returns; the ones below say which objects it creates, shares and *)
(* writes.  The heap is the list of objects created so far, a reference is *)
(* an index into it, and a node object holds references to its arrays.     *)
(***************************************************************************)
NullRef == 0
ArrayCell(items) == [kind |-> "array", items |-> items]
NodeCell(node) == [kind |-> "node", node |-> node]
TreeCell(rootFen, children) == [kind |-> "tree", rootFen |-> rootFen, children |-> children]

\* a new object
Alloc(h, cell) == [heap |-> Append(h, cell), ref |-> Len(h) + 1]

\* [...array]
CopyArray(h, a) == Alloc(h, ArrayCell(h[a].items))

\* the nodes an array of nodes holds
ItemsOf(h, a) == h[a].items

RECURSIVE deepCloneNodeRef(_, _), deepCloneNodesRef(_, _, _)
\* nodes.map(deepCloneNode)
deepCloneNodesRef(h, items, acc) ==
    IF items = <<>> THEN [heap |-> h, refs |-> acc]
    ELSE LET c == deepCloneNodeRef(h, Head(items))
         IN deepCloneNodesRef(c.heap, Tail(items), Append(acc, c.ref))

deepCloneNodeRef(h, a) ==
    LET node == h[a].node
        ar == CopyArray(h, node.arrows)
        hi == CopyArray(ar.heap, node.highlights)
        na == CopyArray(hi.heap, node.nags)
        ch == deepCloneNodesRef(na.heap, ItemsOf(h, node.children), <<>>)
        arr == Alloc(ch.heap, ArrayCell(ch.refs))
    IN Alloc(arr.heap, NodeCell([node EXCEPT !.arrows = ar.ref, !.highlights = hi.ref,
                                             !.nags = na.ref, !.children = arr.ref]))

\* mutant: the tree itself is returned instead of a copy
deepCloneTreeRef_Alias(h, t) == [heap |-> h, ref |-> t]

deepCloneTreeRef(h, t) ==
    LET ch == deepCloneNodesRef(h, ItemsOf(h, h[t].children), <<>>)
        arr == Alloc(ch.heap, ArrayCell(ch.refs))
    IN Alloc(arr.heap, TreeCell(h[t].rootFen, arr.ref))

RECURSIVE findInNodesRef(_, _, _)
findInNodesRef(h, items, nodeId) ==
    IF items = <<>> THEN NullRef
    ELSE LET a == Head(items)
             found == IF h[a].node.id = nodeId THEN a
                      ELSE findInNodesRef(h, ItemsOf(h, h[a].node.children), nodeId)
         IN IF found # NullRef THEN found ELSE findInNodesRef(h, Tail(items), nodeId)

findNodeRef(h, t, nodeId) == findInNodesRef(h, ItemsOf(h, h[t].children), nodeId)

\* the object literal of insertMove, with its four new arrays
NewNodeRef(h, id, san, parentId, isMainline) ==
    LET ch == Alloc(h, ArrayCell(<<>>))
        ar == Alloc(ch.heap, ArrayCell(<<>>))
        hi == Alloc(ar.heap, ArrayCell(<<>>))
        na == Alloc(hi.heap, ArrayCell(<<>>))
    IN Alloc(na.heap, NodeCell([NewMoveNode(id, san, STARTING_FEN, parentId, 1, 1)
                                    EXCEPT !.children = ch.ref, !.arrows = ar.ref,
                                           !.highlights = hi.ref, !.nags = na.ref,
                                           !.isMainline = isMainline]))

insertMoveRef(h, t, parentId, san, id) ==
    IF parentId = NoId
    THEN LET n == NewNodeRef(h, id, san, parentId, Len(ItemsOf(h, h[t].children)) = 0)
             arr == Alloc(n.heap, ArrayCell(Append(ItemsOf(h, h[t].children), n.ref)))
         IN Alloc(arr.heap, TreeCell(h[t].rootFen, arr.ref))
    ELSE LET n == NewNodeRef(h, id, san, parentId, FALSE)
             newTree == deepCloneTreeRef(n.heap, t)
             parent == findNodeRef(newTree.heap, newTree.ref, parentId)
         IN IF parent = NullRef THEN newTree
            ELSE LET list == newTree.heap[parent].node.children
                     first == Len(ItemsOf(newTree.heap, list)) = 0
                 IN [heap |-> [newTree.heap EXCEPT
                                  ![n.ref].node.isMainline = first,
                                  ![list].items = Append(@, n.ref)],
                     ref |-> newTree.ref]

RECURSIVE removeFromChildrenRef(_, _, _, _)
\* children.filter(...).map(child => ({...child, children: ...})): the list
\* of the new node objects
removeFromChildrenRef(h, items, nodeId, acc) ==
    IF items = <<>> THEN [heap |-> h, refs |-> acc]
    ELSE LET a == Head(items)
         IN IF h[a].node.id = nodeId
            THEN removeFromChildrenRef(h, Tail(items), nodeId, acc)
            ELSE LET sub == removeFromChildrenRef(h, ItemsOf(h, h[a].node.children),
                                                  nodeId, <<>>)
                     arr == Alloc(sub.heap, ArrayCell(sub.refs))
                     n == Alloc(arr.heap, NodeCell([h[a].node EXCEPT !.children = arr.ref]))
                 IN removeFromChildrenRef(n.heap, Tail(items), nodeId, Append(acc, n.ref))

deleteSubtreeRef(h, t, nodeId) ==
    LET newTree == deepCloneTreeRef(h, t)
        kept == removeFromChildrenRef(newTree.heap,
                    ItemsOf(newTree.heap, newTree.heap[newTree.ref].children), nodeId, <<>>)
        arr == Alloc(kept.heap, ArrayCell(kept.refs))
    IN [heap |-> [arr.heap EXCEPT ![newTree.ref].children = arr.ref], ref |-> newTree.ref]

\* index of the node with the id in a list of node references, 0 if none
FindIndexRef(h, items, id) ==
    IF \E i \in 1..Len(items) : h[items[i]].node.id = id
    THEN CHOOSE i \in 1..Len(items) :
            /\ h[items[i]].node.id = id
            /\ \A j \in 1..(i - 1) : h[items[j]].node.id # id
    ELSE 0

\* splice, the two flag writes and unshift, on the array itself
PromoteInRef(h, list, childId) ==
    LET items == ItemsOf(h, list)
        idx == FindIndexRef(h, items, childId)
    IN IF idx > 1
       THEN LET promoted == items[idx]
                rest == RemoveAt(items, idx)
            IN [h EXCEPT ![promoted].node.isMainline = TRUE,
                         ![rest[1]].node.isMainline = FALSE,
                         ![list].items = <<promoted>> \o rest]
       ELSE h

promoteVariationRef(h, t, parentId, childId) ==
    LET newTree == deepCloneTreeRef(h, t)
        nh == newTree.heap
    IN IF parentId = RootSentinel
       THEN [heap |-> PromoteInRef(nh, nh[newTree.ref].children, childId), ref |-> newTree.ref]
       ELSE LET parent == findNodeRef(nh, newTree.ref, parentId)
            IN IF parent = NullRef THEN newTree
               ELSE [heap |-> PromoteInRef(nh, nh[parent].node.children, childId),
                     ref |-> newTree.ref]

RECURSIVE CopyLevelRef(_, _, _)
\* existingChildren.map(c => ({ ...c, children: [...c.children] }))
CopyLevelRef(h, items, acc) ==
    IF items = <<>> THEN [heap |-> h, refs |-> acc]
    ELSE LET arr == CopyArray(h, h[Head(items)].node.children)
             n == Alloc(arr.heap, NodeCell([h[Head(items)].node EXCEPT !.children = arr.ref]))
         IN CopyLevelRef(n.heap, Tail(items), Append(acc, n.ref))

\* mutant: no node is ever found
FindSanRef_None(h, items, san) == NullRef

\* merged.find(c => c.san === san): the first such node, NullRef if none
FindSanRef(h, items, san) ==
    IF \E i \in 1..Len(items) : h[items[i]].node.san = san
    THEN items[CHOOSE i \in 1..Len(items) :
                    /\ h[items[i]].node.san = san
                    /\ \A j \in 1..(i - 1) : h[items[j]].node.san # san]
    ELSE NullRef

RECURSIVE mergeChildrenRef(_, _, _), mergeLoopRef(_, _, _)
\* the for loop over importedChildren; merged is the array being built
mergeLoopRef(h, merged, imported) ==
    IF imported = <<>> THEN h
    ELSE LET imp == Head(imported)
             impChild == h[imp].node
             match == FindSanRef(h, ItemsOf(h, merged), impChild.san)
         IN IF match # NullRef
            THEN LET sub == mergeChildrenRef(h, h[match].node.children, impChild.children)
                     m == sub.heap[match].node
                     m1 == [m EXCEPT !.children = sub.ref]
                     m2 == IF impChild.comment # <<>> /\ m.comment = <<>>
                           THEN [m1 EXCEPT !.comment = impChild.comment] ELSE m1
                     m3 == IF Len(ItemsOf(sub.heap, impChild.arrows)) > 0
                                /\ Len(ItemsOf(sub.heap, m.arrows)) = 0
                           THEN [m2 EXCEPT !.arrows = impChild.arrows] ELSE m2
                     m4 == IF Len(ItemsOf(sub.heap, impChild.highlights)) > 0
                                /\ Len(ItemsOf(sub.heap, m.highlights)) = 0
                           THEN [m3 EXCEPT !.highlights = impChild.highlights] ELSE m3
                 IN mergeLoopRef([sub.heap EXCEPT ![match].node = m4], merged, Tail(imported))
            ELSE LET n == Alloc(h, NodeCell([impChild EXCEPT !.isMainline = FALSE]))
                 IN mergeLoopRef([n.heap EXCEPT ![merged].items = Append(@, n.ref)],
                                 merged, Tail(imported))

mergeChildrenRef(h, existingChildren, importedChildren) ==
    LET level == CopyLevelRef(h, ItemsOf(h, existingChildren), <<>>)
        merged == Alloc(level.heap, ArrayCell(level.refs))
    IN [heap |-> mergeLoopRef(merged.heap, merged.ref, ItemsOf(h, importedChildren)),
        ref |-> merged.ref]

mergeTreesRef(h, existing, imported) ==
    LET m == mergeChildrenRef(h, h[existing].children, h[imported].children)
    IN Alloc(m.heap, TreeCell(h[existing].rootFen, m.ref))

RECURSIVE NodesValue(_, _)
\* what a holder of the reference reads: the nodes of an array, in order
NodesValue(h, items) ==
    [i \in 1..Len(items) |->
        LET n == h[items[i]].node
        IN [n EXCEPT !.children = NodesValue(h, ItemsOf(h, n.children)),
                     !.arrows = ItemsOf(h, n.arrows),
                     !.highlights = ItemsOf(h, n.highlights),
                     !.nags = ItemsOf(h, n.nags)]]

TreeValue(h, t) ==
    [rootFen |-> h[t].rootFen, children |-> NodesValue(h, ItemsOf(h, h[t].children))]

(***************************************************************************)
(* Callers of the tree operations: every tree obtained so far stays held,  *)
(* and any held tree can be the input of the next call.  At the start two  *)
(* trees are held: a new repertoire's empty tree and an imported tree      *)
(* 1. e4 {good} [%cal Ge2e4] e5.                                            *)
(***************************************************************************)
ImportedE4 == 101
ImportedE5 == 102

InitialHeap ==
    << ArrayCell(<<>>),
       TreeCell(STARTING_FEN, 1),
       ArrayCell(<<>>), ArrayCell(<<>>), ArrayCell(<<>>), ArrayCell(<<>>),
       NodeCell([NewMoveNode(ImportedE5, "e5", STARTING_FEN, ImportedE4, 1, 2)
                    EXCEPT !.children = 3, !.arrows = 4, !.highlights = 5, !.nags = 6,
                           !.isMainline = TRUE]),
       ArrayCell(<<7>>), ArrayCell(<<"Ge2e4">>), ArrayCell(<<>>), ArrayCell(<<>>),
       NodeCell([NewMoveNode(ImportedE4, "e4", STARTING_FEN, NoId, 1, 1)
                    EXCEPT !.children = 8, !.arrows = 9, !.highlights = 10, !.nags = 11,
                           !.isMainline = TRUE, !.comment = <<"good">>]),
       ArrayCell(<<12>>),
       TreeCell(STARTING_FEN, 13) >>

Hold(h, t) == [ref |-> t, value |-> TreeValue(h, t)]
NoHeapOp == [name |-> "none", input |-> 0, imported |-> 0, nodeId |-> NoId]

HeapInit ==
    /\ heap = InitialHeap
    /\ held = <<Hold(InitialHeap, 2), Hold(InitialHeap, 14)>>
    /\ heapOp = NoHeapOp

\* the call returned r: its result is held from now on
Returned(r, o) ==
    /\ heap' = r.heap
    /\ held' = Append(held, Hold(r.heap, r.ref))
    /\ heapOp' = o
    /\ UNCHANGED NotHeap

HeldIds(i) == NodeIdsOf(held[i].value.children)
FreshId == Len(held)

InsertMoveRefAct ==
    /\ Len(held) < MaxHeld
    /\ \E i \in 1..Len(held), san \in TreeSans :
       \E parentId \in {NoId} \cup HeldIds(i) :
            Returned(insertMoveRef(heap, held[i].ref, parentId, san, FreshId),
                     [name |-> "insert", input |-> i, imported |-> 0, nodeId |-> parentId])

DeleteSubtreeRefAct ==
    /\ Len(held) < MaxHeld
    /\ \E i \in 1..Len(held) :
       \E nodeId \in HeldIds(i) :
            Returned(deleteSubtreeRef(heap, held[i].ref, nodeId),
                     [name |-> "delete", input |-> i, imported |-> 0, nodeId |-> nodeId])

PromoteVariationRefAct ==
    /\ Len(held) < MaxHeld
    /\ \E i \in 1..Len(held) :
       \E parentId \in {RootSentinel} \cup HeldIds(i), childId \in HeldIds(i) :
            /\ FindIndex(GroupOf(held[i].value, parentId), childId) > 1
            /\ Returned(promoteVariationRef(heap, held[i].ref, parentId, childId),
                        [name |-> "promote", input |-> i, imported |-> 0, nodeId |-> childId])

MergeTreesRefAct ==
    /\ Len(held) < MaxHeld
    /\ \E i \in 1..Len(held), j \in 1..Len(held) :
            Returned(mergeTreesRef(heap, held[i].ref, held[j].ref),
                     [name |-> "merge", input |-> i, imported |-> j, nodeId |-> NoId])

HeapIdle ==
    /\ heap = <<>>
    /\ held = <<>>
    /\ heapOp = NoHeapOp

NoStoreOp == [name |-> "none", nodeId |-> NoId]

(***************************************************************************)
(* The repertoire store, for one repertoire.  generateId returns storeId;  *)
(* extractAllLines gives every line a new id.                              *)
(***************************************************************************)
RECURSIVE updateNode(_, _, _)
\* setOpeningName's nodes.map
updateNode(nodes, nodeId, name) ==
    [i \in 1..Len(nodes) |->
        IF nodes[i].id = nodeId THEN [nodes[i] EXCEPT !.openingName = name]
        ELSE [nodes[i] EXCEPT !.children = updateNode(nodes[i].children, nodeId, name)]]

\* extractAllLines(tree, repertoireId): the lines, each with its generated id
LinesWithIds(t, firstId) ==
    LET lines == extractAllLines(t)
    IN [i \in 1..Len(lines) |-> [id |-> firstId + i - 1] @@ lines[i]]

\* the lines without their ids
WithoutIds(lines) ==
    [i \in 1..Len(lines) |->
        [moveNodeIds |-> lines[i].moveNodeIds, sanSequence |-> lines[i].sanSequence,
         displayName |-> lines[i].displayName, terminalFen |-> lines[i].terminalFen,
         openingName |-> lines[i].openingName]]

\* recalculateLines after the tree became t and next ids were taken
recalculateLines(t, next) ==
    /\ repLines' = LinesWithIds(t, next)
    /\ storeId' = next + Len(extractAllLines(t))

\* trees handed to importTree, as parseGame would return them
ImportedNode(id, san, fen, parentId, ply, children) ==
    [NewMoveNode(id, san, fen, parentId, (ply + 1) \div 2, ply)
        EXCEPT !.isMainline = TRUE, !.children = children]

ImportedTrees ==
    { [rootFen |-> STARTING_FEN,
       children |-> <<ImportedNode(ImportedE4, "e4", <<"e4">>, NoId, 1,
                        <<ImportedNode(ImportedE5, "e5", <<"e4", "e5">>, ImportedE4, 2, <<>>)>>)>>],
      [rootFen |-> STARTING_FEN,
       children |-> <<ImportedNode(ImportedE5, "e5", <<"e5">>, NoId, 1, <<>>)>>] }

OpeningNames == {"", "Sicilian"}

StoreInit ==
    /\ repTree = EmptyTree
    /\ repLines = <<>>
    /\ storeId = 1
    /\ storeOp = NoStoreOp

StoreIds == NodeIdsOf(repTree.children)

addMove ==
    /\ storeId <= MaxStoreIds
    /\ \E parentId \in StoreIds \cup {NoId}, san \in TreeSans :
        LET found == parentId # NoId
            fen == IF found THEN Append(findNode(repTree, parentId).fen, san) ELSE <<san>>
            ply == IF found THEN findNode(repTree, parentId).plyFromRoot + 1 ELSE 1
            r == insertMove(repTree, parentId, san, fen, (ply + 1) \div 2, ply, storeId)
        IN /\ repTree' = r.tree
           /\ recalculateLines(r.tree, storeId + 1)
           /\ storeOp' = [name |-> "addMove", nodeId |-> storeId]
    /\ UNCHANGED NotStore

deleteMove ==
    /\ storeId <= MaxStoreIds
    /\ \E nodeId \in StoreIds :
        /\ repTree' = deleteSubtree(repTree, nodeId)
        /\ recalculateLines(deleteSubtree(repTree, nodeId), storeId)
        /\ storeOp' = [name |-> "deleteMove", nodeId |-> nodeId]
    /\ UNCHANGED NotStore

storePromoteVariation ==
    /\ \E parentId \in StoreIds \cup {RootSentinel}, childId \in StoreIds :
        /\ repTree' = promoteVariation(repTree, parentId, childId)
        /\ storeOp' = [name |-> "promoteVariation", nodeId |-> childId]
    /\ UNCHANGED <<repLines, storeId, NotStore>>

setOpeningName ==
    /\ \E nodeId \in StoreIds, name \in OpeningNames :
        /\ repTree' = [repTree EXCEPT !.children = updateNode(repTree.children, nodeId, name)]
        /\ storeOp' = [name |-> "setOpeningName", nodeId |-> nodeId]
    /\ UNCHANGED <<repLines, storeId, NotStore>>

importTree ==
    /\ storeId <= MaxStoreIds
    /\ \E importedTree \in ImportedTrees, openingName \in OpeningNames :
        LET namedTree ==
                [importedTree EXCEPT !.children =
                    [i \in 1..Len(importedTree.children) |->
                        [importedTree.children[i] EXCEPT !.openingName =
                            IF importedTree.children[i].openingName # ""
                            THEN importedTree.children[i].openingName ELSE openingName]]]
            mergedTree == IF Len(repTree.children) > 0
                          THEN mergeTrees(repTree, namedTree) ELSE namedTree
        IN /\ repTree' = mergedTree
           /\ recalculateLines(mergedTree, storeId)
           /\ storeOp' = [name |-> "importTree", nodeId |-> NoId]
    /\ UNCHANGED NotStore

(***************************************************************************)
(* pgn-parser: splitPGN and parseMultiGamePGN.  A file is a list of lines; *)
(* a line is a header line starting with [Event, or movetext (a blank line *)
(* is movetext without lexemes).                                           *)
(***************************************************************************)
EventLine == [event |-> TRUE, text |-> <<>>]
TextLine(text) == [event |-> FALSE, text |-> text]
BlankLine == TextLine(<<>>)

\* the line has a character that is not whitespace
NonBlank(line) == line.event \/ line.text # <<>>

RECURSIVE TrimStart(_)
TrimStart(lines) ==
    IF lines # <<>> /\ ~NonBlank(Head(lines)) THEN TrimStart(Tail(lines)) ELSE lines

RECURSIVE TrimEnd(_)
TrimEnd(lines) ==
    IF lines # <<>> /\ ~NonBlank(Last(lines)) THEN TrimEnd(Front(lines)) ELSE lines

\* currentGame.trim()
Trim(lines) == TrimEnd(TrimStart(lines))

RECURSIVE splitLoop(_, _, _)
\* the for loop of splitPGN and the push after it
splitLoop(lines, currentGame, out) ==
    IF lines = <<>>
    THEN IF Trim(currentGame) # <<>> THEN Append(out, Trim(currentGame)) ELSE out
    ELSE IF Head(lines).event /\ Trim(currentGame) # <<>>
         THEN splitLoop(Tail(lines), <<Head(lines)>>, Append(out, Trim(currentGame)))
         ELSE splitLoop(Tail(lines), Append(currentGame, Head(lines)), out)

splitPGN(lines) == splitLoop(lines, <<>>, <<>>)

RECURSIVE MovetextOf(_)
\* a game's text once parseGame has removed the bracketed headers
MovetextOf(gameLines) ==
    IF gameLines = <<>> THEN <<>>
    ELSE Head(gameLines).text \o MovetextOf(Tail(gameLines))

\* mutant: games without moves are returned too
keepsGame_Any(count) == count >= 0

\* if (game.moveCount > 0)
keepsGame(count) == count > 0

LineKinds ==
    {EventLine, BlankLine, TextLine(<<Word("e4")>>),
     TextLine(<<Word("e5"), Word("("), Word("c5"), Word(")")>>),
     TextLine(<<Word("$1"), PlainComment, Word("*")>>)}

Files == UNION {[1..n -> LineKinds] : n \in 0..MaxLines}

BatchInit ==
    /\ fileLines \in Files
    /\ games = splitPGN(fileLines)
    /\ gameIdx = 1
    /\ parsed = <<>>
    /\ outcomes = <<>>
    /\ bstate = "next"
    /\ pgnText = <<>>
    /\ tokens = <<>>
    /\ posIdx = 1
    /\ stack = <<Frame("main", NewChess(STARTING_FEN), NoId)>>
    /\ genId = 1
    /\ pstate = "idle"
    /\ moveThrows \in BOOLEAN

\* parseGame(gamePgn) is entered
StartGame ==
    /\ bstate = "next"
    /\ gameIdx <= Len(games)
    /\ pgnText' = MovetextOf(games[gameIdx])
    /\ tokens' = tokenize(preprocessPGN(StripBrackets(MovetextOf(games[gameIdx]))))
    /\ posIdx' = 1
    /\ stack' = <<Frame("main", NewChess(STARTING_FEN), NoId)>>
    /\ pstate' = "parsing"
    /\ bstate' = "parsing"
    /\ UNCHANGED <<genId, moveThrows, fileLines, games, gameIdx, parsed, outcomes,
                   derived, NotParse>>

\* parseGame returned or threw: the game is pushed, left out, or the error
\* is caught
CollectGame ==
    /\ bstate = "parsing"
    /\ pstate \in {"done", "failed"}
    /\ parsed' = IF pstate = "done" /\ keepsGame(moveCount)
                 THEN Append(parsed, [game |-> gameIdx, tree |-> ParsedTree,
                                      moveCount |-> moveCount,
                                      lineCount |-> countLines(ParsedTree)])
                 ELSE parsed
    /\ outcomes' = Append(outcomes, [status |-> pstate,
                                     moveCount |-> IF pstate = "done" THEN moveCount ELSE 0])
    /\ gameIdx' = gameIdx + 1
    /\ pstate' = "idle"
    /\ bstate' = "next"
    /\ UNCHANGED <<pgnText, tokens, posIdx, stack, genId, moveThrows, fileLines, games,
                   derived, NotParse>>

\* the loop over the games is over
ReturnParsed ==
    /\ bstate = "next"
    /\ gameIdx > Len(games)
    /\ bstate' = "returned"
    /\ UNCHANGED <<parseVars, fileLines, games, gameIdx, parsed, outcomes, derived, NotParse>>

\* the store, the batch parser and deriveQuality are not used
StoreIdle ==
    /\ repTree = EmptyTree
    /\ repLines = <<>>
    /\ storeId = 1
    /\ storeOp = NoStoreOp

BatchIdle ==
    /\ fileLines = <<>>
    /\ games = <<>>
    /\ gameIdx = 1
    /\ parsed = <<>>
    /\ outcomes = <<>>
    /\ bstate = "idle"


(***************************************************************************)
(* DrillPage and the drill store.  A session presents lines 1..n, each of  *)
(* lineLength plies; the user plays userColor's plies and a timer plays    *)
(* the others.  Handlers and timer callbacks read the values of the render *)
(* they were created in; store actions read the store as it is.            *)
(***************************************************************************)
NoLine == 0
NoTimer == [currentLine |-> NoLine, currentPlyIndex |-> 0]
NotRendered == [status |-> "idle", currentLine |-> NoLine, currentPlyIndex |-> 0,
                mistakeCount |-> 0, waitingForOpponent |-> FALSE]

\* white moves on even ply indices, black on odd ones
isUserTurn(color, line, plyIndex) ==
    /\ line # NoLine
    /\ (color = "white") = (plyIndex % 2 = 0)

\* the values a render of the page reads
Snapshot ==
    [status |-> drillStatus, currentLine |-> currentLine,
     currentPlyIndex |-> currentPlyIndex, mistakeCount |-> mistakeCount,
     waitingForOpponent |-> waitingForOpponent]

\* startSession with n lines, the first of them presented
DrillInit ==
    /\ \E n \in 1..MaxDrillLines :
        linesRemaining = [i \in 1..(n - 1) |-> i + 1]
    /\ lineLength \in 1..MaxPly
    /\ userColor \in {"white", "black"}
    /\ drillStatus = "playing"
    /\ currentLine = 1
    /\ currentPlyIndex = 0
    /\ mistakeCount = 0
    /\ linesCompleted = <<>>
    /\ sessionResults = <<>>
    /\ waitingForOpponent = FALSE
    /\ rendered = NotRendered
    /\ cleanupSet = FALSE
    /\ autoPlayTimer = NoTimer
    /\ feedbackTimers = {}

DrillIdle ==
    /\ drillStatus = "idle"
    /\ currentLine = NoLine
    /\ currentPlyIndex = 0
    /\ mistakeCount = 0
    /\ linesCompleted = <<>>
    /\ linesRemaining = <<>>
    /\ sessionResults = <<>>
    /\ userColor = "white"
    /\ lineLength = 0
    /\ waitingForOpponent = FALSE
    /\ rendered = NotRendered
    /\ cleanupSet = FALSE
    /\ autoPlayTimer = NoTimer
    /\ feedbackTimers = {}

\* the store's completeLine: the attempt carries the caller's line id, the
\* completed line is the store's current line
completeLine(lineId) ==
    /\ drillStatus' = "rating"
    /\ linesCompleted' = Append(linesCompleted, currentLine)
    /\ sessionResults' = Append(sessionResults, lineId)

\* the page renders the current values and React runs the auto-play effect,
\* whose dependencies changed: first the cleanup the previous run returned,
\* then the effect body
Render ==
    /\ rendered # Snapshot
    /\ rendered' = Snapshot
    /\ IF /\ drillStatus = "playing"
          /\ currentLine # NoLine
          /\ ~isUserTurn(userColor, currentLine, currentPlyIndex)
          /\ ~waitingForOpponent
       THEN /\ waitingForOpponent' = TRUE
            /\ autoPlayTimer' = [currentLine |-> currentLine,
                                 currentPlyIndex |-> currentPlyIndex]
            /\ cleanupSet' = TRUE
       ELSE /\ autoPlayTimer' = IF cleanupSet THEN NoTimer ELSE autoPlayTimer
            /\ cleanupSet' = FALSE
            /\ UNCHANGED waitingForOpponent
    /\ UNCHANGED <<drillStatus, currentLine, currentPlyIndex, mistakeCount, linesCompleted,
                   linesRemaining, sessionResults, userColor, lineLength, feedbackTimers,
                   NotDrill>>

\* the auto-play timer's callback
AutoPlayFire ==
    /\ autoPlayTimer # NoTimer
    /\ autoPlayTimer' = NoTimer
    /\ IF autoPlayTimer.currentPlyIndex >= lineLength
       THEN UNCHANGED <<drillStatus, currentPlyIndex, linesCompleted, sessionResults,
                        waitingForOpponent>>
       ELSE /\ currentPlyIndex' = currentPlyIndex + 1
            /\ waitingForOpponent' = FALSE
            /\ IF autoPlayTimer.currentPlyIndex + 1 >= lineLength
               THEN completeLine(autoPlayTimer.currentLine)
               ELSE UNCHANGED <<drillStatus, linesCompleted, sessionResults>>
    /\ UNCHANGED <<currentLine, mistakeCount, linesRemaining, userColor, lineLength,
                   rendered, cleanupSet, feedbackTimers, NotDrill>>

\* the user drops a piece on the board the page last rendered
DrillHandlePieceDrop ==
    /\ rendered = Snapshot
    /\ drillStatus = "playing"
    /\ isUserTurn(userColor, currentLine, currentPlyIndex)
    /\ ~waitingForOpponent
    /\ currentPlyIndex < lineLength
    /\ \E accepted \in BOOLEAN :
        IF accepted
        THEN /\ currentPlyIndex' = currentPlyIndex + 1
             /\ feedbackTimers' = feedbackTimers \cup
                    {[currentLine |-> currentLine, currentPlyIndex |-> currentPlyIndex]}
             /\ UNCHANGED mistakeCount
        ELSE /\ mistakeCount < MaxDrillMistakes
             /\ mistakeCount' = mistakeCount + 1
             /\ UNCHANGED <<currentPlyIndex, feedbackTimers>>
    /\ UNCHANGED <<drillStatus, currentLine, linesCompleted, linesRemaining, sessionResults,
                   userColor, lineLength, waitingForOpponent, rendered, cleanupSet,
                   autoPlayTimer, NotDrill>>

\* the callback of the timer a correct move started
FeedbackFire ==
    /\ \E t \in feedbackTimers :
        /\ feedbackTimers' = feedbackTimers \ {t}
        /\ IF t.currentPlyIndex + 1 >= lineLength
           THEN completeLine(t.currentLine)
           ELSE UNCHANGED <<drillStatus, linesCompleted, sessionResults>>
    /\ UNCHANGED <<currentLine, currentPlyIndex, mistakeCount, linesRemaining, userColor,
                   lineLength, waitingForOpponent, rendered, cleanupSet, autoPlayTimer,
                   NotDrill>>

DrillHandleSkip ==
    /\ rendered = Snapshot
    /\ currentLine # NoLine
    /\ drillStatus = "playing"
    /\ completeLine(currentLine)
    /\ UNCHANGED <<currentLine, currentPlyIndex, mistakeCount, linesRemaining, userColor,
                   lineLength, waitingForOpponent, rendered, cleanupSet, autoPlayTimer,
                   feedbackTimers, NotDrill>>

\* a rating button of the rating panel: the store's nextLine
DrillHandleRate ==
    /\ rendered = Snapshot
    /\ drillStatus = "rating"
    /\ currentLine # NoLine
    /\ IF linesRemaining # <<>>
       THEN /\ currentLine' = Head(linesRemaining)
            /\ linesRemaining' = Tail(linesRemaining)
            /\ currentPlyIndex' = 0
            /\ mistakeCount' = 0
            /\ drillStatus' = "playing"
       ELSE /\ drillStatus' = "complete"
            /\ UNCHANGED <<currentLine, linesRemaining, currentPlyIndex, mistakeCount>>
    /\ UNCHANGED <<linesCompleted, sessionResults, userColor, lineLength,
                   waitingForOpponent, rendered, cleanupSet, autoPlayTimer,
                   feedbackTimers, NotDrill>>

(***************************************************************************)
(* The repertoire page and the SRS cards.  The selected repertoire is the  *)
(* one the store model holds; a second repertoire has one card.  A handler *)
(* reads the lines of the render it was created in: the stored lines as    *)
(* they are when it is called.                                             *)
(***************************************************************************)
SelectedRep == 1
OtherRep == 2
OtherLine == 201

NewSrsCard(lineId, repertoireId) == [lineId |-> lineId, repertoireId |-> repertoireId]

LineIdsOf(lines) == {lines[i].id : i \in 1..Len(lines)}

\* the cards after ensureCardsExist(lineIds, repertoireId)
ensureCardsExist(cs, lineIds, repertoireId) ==
    cs \cup { NewSrsCard(l, repertoireId) :
                l \in {x \in lineIds : \A c \in cs : c.lineId # x} }

PageInit ==
    /\ StoreInit
    /\ repertoires = {SelectedRep, OtherRep}
    /\ cards = {NewSrsCard(OtherLine, OtherRep)}

PageIdle ==
    /\ repertoires = {}
    /\ cards = {}

\* the tree importTree stores
importedInto(t, importedTree, openingName) ==
    LET namedTree ==
            [importedTree EXCEPT !.children =
                [i \in 1..Len(importedTree.children) |->
                    [importedTree.children[i] EXCEPT !.openingName =
                        IF importedTree.children[i].openingName # ""
                        THEN importedTree.children[i].openingName ELSE openingName]]]
    IN IF Len(t.children) > 0 THEN mergeTrees(t, namedTree) ELSE namedTree

RECURSIVE importLoop(_, _, _)
\* handleImport's loop: importTree for each game, each taking ids for its lines
importLoop(t, next, gamesLeft) ==
    IF gamesLeft = <<>> THEN [tree |-> t, next |-> next]
    ELSE LET m == importedInto(t, Head(gamesLeft).tree, Head(gamesLeft).openingName)
         IN importLoop(m, next + Len(extractAllLines(m)), Tail(gamesLeft))

ParsedGames ==
    UNION { [1..n -> [tree : ImportedTrees, openingName : OpeningNames]] : n \in 0..MaxGames }

\* a piece dropped on the board with any node, or none, selected
RepertoireHandlePieceDrop ==
    /\ SelectedRep \in repertoires
    /\ storeId <= MaxStoreIds
    /\ \E selectedNodeId \in StoreIds \cup {NoId}, san \in TreeSans :
        LET found == selectedNodeId # NoId
            siblings == IF found THEN findNode(repTree, selectedNodeId).children
                        ELSE repTree.children
            fen == IF found THEN Append(findNode(repTree, selectedNodeId).fen, san)
                   ELSE <<san>>
            plyFromRoot == IF found THEN findNode(repTree, selectedNodeId).plyFromRoot + 1
                           ELSE 1
            r == insertMove(repTree, selectedNodeId, san, fen, (plyFromRoot + 1) \div 2,
                            plyFromRoot, storeId)
        IN IF \E i \in 1..Len(siblings) : siblings[i].san = san
           THEN /\ storeOp' = [name |-> "selectNode", nodeId |-> selectedNodeId]
                /\ UNCHANGED <<repTree, repLines, storeId, cards>>
           ELSE /\ repTree' = r.tree
                /\ recalculateLines(r.tree, storeId + 1)
                /\ storeOp' = [name |-> "handlePieceDrop", nodeId |-> storeId]
                /\ cards' = ensureCardsExist(cards, LineIdsOf(repLines), SelectedRep)
    /\ UNCHANGED <<repertoires, NotPage>>

RepertoireHandleImport ==
    /\ SelectedRep \in repertoires
    /\ storeId <= MaxStoreIds
    /\ \E parsedGames \in ParsedGames :
        LET r == importLoop(repTree, storeId, parsedGames)
        IN /\ repTree' = r.tree
           /\ recalculateLines(r.tree, r.next)
           /\ storeOp' = [name |-> "handleImport", nodeId |-> NoId]
           /\ cards' = ensureCardsExist(cards, LineIdsOf(repLines), SelectedRep)
    /\ UNCHANGED <<repertoires, NotPage>>

deleteRepertoire ==
    /\ \E id \in repertoires :
        /\ repertoires' = repertoires \ {id}
        /\ storeOp' = [name |-> "deleteRepertoire", nodeId |-> id]
        /\ IF id = SelectedRep
           THEN repTree' = EmptyTree /\ repLines' = <<>>
           ELSE UNCHANGED <<repTree, repLines>>
    /\ UNCHANGED <<storeId, cards, NotPage>>

NoDerived == [mistakes |-> NotCalled, hintsUsed |-> NotCalled, quality |-> NotCalled]
DeriveIdle == derived = NoDerived

Init ==
    /\ TreeInit /\ SrsInit /\ ParseIdle
    /\ HeapIdle /\ StoreIdle /\ BatchIdle /\ DeriveIdle
    /\ DrillIdle /\ PageIdle

Next ==
    \/ InsertMoveAct
    \/ DeleteSubtreeAct
    \/ PromoteVariationAct
    \/ MergeSelfAct

Spec == Init /\ [][Next]_vars

\* the scheduler on its own
SrsNext ==
    \/ ProcessReview
    \/ Sm2Call

SpecSrs == Init /\ [][SrsNext]_vars

\* parseGame on its own
ParseNext ==
    \/ CloseParenStep
    \/ SkipStep
    \/ CommentStep
    \/ NagStep
    \/ LegalMoveStep
    \/ IllegalMoveSkipStep
    \/ IllegalMoveThrowStep
    \/ OpenParenStep
    \/ EndOfTokensStep

ParseStart ==
    /\ TreeInit /\ SrsInit /\ ParseInit
    /\ HeapIdle /\ StoreIdle /\ BatchIdle /\ DeriveIdle
    /\ DrillIdle /\ PageIdle

SpecParse == ParseStart /\ [][ParseNext]_vars

\* callers of the tree operations, on objects
HeapNext ==
    \/ InsertMoveRefAct
    \/ DeleteSubtreeRefAct
    \/ PromoteVariationRefAct
    \/ MergeTreesRefAct

HeapStart ==
    /\ TreeInit /\ SrsInit /\ ParseIdle
    /\ HeapInit /\ StoreIdle /\ BatchIdle /\ DeriveIdle
    /\ DrillIdle /\ PageIdle

\* parseMultiGamePGN: the games are parsed one after the other
BatchNext ==
    \/ StartGame
    \/ CollectGame
    \/ ReturnParsed
    \/ CloseParenStep
    \/ SkipStep
    \/ CommentStep
    \/ NagStep
    \/ LegalMoveStep
    \/ IllegalMoveSkipStep
    \/ IllegalMoveThrowStep
    \/ OpenParenStep
    \/ EndOfTokensStep

BatchStart ==
    /\ TreeInit /\ SrsInit /\ BatchInit
    /\ HeapIdle /\ StoreIdle /\ DeriveIdle
    /\ DrillIdle /\ PageIdle

SpecBatch == BatchStart /\ [][BatchNext]_vars

\* deriveQuality on its own
DeriveNext == DeriveQualityCall

DeriveStart ==
    /\ TreeInit /\ SrsInit /\ ParseIdle
    /\ HeapIdle /\ StoreIdle /\ BatchIdle /\ DeriveInit
    /\ DrillIdle /\ PageIdle

SpecDerive == DeriveStart /\ [][DeriveNext]_vars

SpecHeap == HeapStart /\ [][HeapNext]_vars

\* the repertoire store
StoreNext ==
    \/ addMove
    \/ deleteMove
    \/ storePromoteVariation
    \/ setOpeningName
    \/ importTree

StoreStart ==
    /\ TreeInit /\ SrsInit /\ ParseIdle
    /\ HeapIdle /\ StoreInit /\ BatchIdle /\ DeriveIdle
    /\ DrillIdle /\ PageIdle

SpecStore == StoreStart /\ [][StoreNext]_vars

\* a drill session
DrillNext ==
    \/ Render
    \/ AutoPlayFire
    \/ DrillHandlePieceDrop
    \/ FeedbackFire
    \/ DrillHandleSkip
    \/ DrillHandleRate

DrillStart ==
    /\ TreeInit /\ SrsInit /\ ParseIdle
    /\ HeapIdle /\ StoreIdle /\ BatchIdle /\ DeriveIdle
    /\ DrillInit /\ PageIdle

SpecDrill == DrillStart /\ [][DrillNext]_vars

\* React renders after every state change and a pending timer fires
SpecDrillFair ==
    /\ DrillStart /\ [][DrillNext]_vars
    /\ WF_vars(Render) /\ WF_vars(AutoPlayFire) /\ WF_vars(FeedbackFire)

\* the repertoire page
PageNext ==
    \/ RepertoireHandlePieceDrop
    \/ RepertoireHandleImport
    \/ deleteRepertoire
    \/ deleteMove

PageStart ==
    /\ TreeInit /\ SrsInit /\ ParseIdle
    /\ HeapIdle /\ PageInit /\ BatchIdle /\ DeriveIdle
    /\ DrillIdle

SpecPage == PageStart /\ [][PageNext]_vars

(***************************************************************************)
(* Properties of the tree editor.                                          *)
(***************************************************************************)
MainlineCount(group) == Cardinality({i \in 1..Len(group) : group[i].isMainline})

ExactlyOneMainlineFirst(group) ==
    Len(group) > 0 => (MainlineCount(group) = 1 /\ group[1].isMainline)

AtMostOneMainlineFirst(group) ==
    /\ MainlineCount(group) <= 1
    /\ \A i \in 1..Len(group) : group[i].isMainline => i = 1

\* C1 (as stated): in every tree reached by insertMove, deleteSubtree and
\* promoteVariation calls, every non-empty sibling group has exactly one
\* isMainline member, at index 0.
C1_MainlineInvariant ==
    \A g \in SiblingGroups(tree.children) : ExactlyOneMainlineFirst(g)

\* C1 (amended): every sibling group has at most one isMainline member and
\* only at index 0; it has exactly one unless a deleteSubtree call removed a
\* mainline node that had siblings.
C1_MainlineAtMostOne ==
    \A g \in SiblingGroups(tree.children) :
        /\ AtMostOneMainlineFirst(g)
        /\ ~orphaned => ExactlyOneMainlineFirst(g)

\* a delete has acted after a promotion reordered a group (ids are handed out
\* in insertion order), and no mainline node with siblings was removed
C1_Witness ==
    /\ op.name = "delete"
    /\ prev # tree
    /\ ~orphaned
    /\ \E g \in SiblingGroups(tree.children) : Len(g) >= 2 /\ g[1].id > g[2].id

\* order and flags of a sibling list
OrderAndFlags(group) ==
    [i \in 1..Len(group) |-> <<group[i].id, group[i].isMainline>>]

\* a step that promotes m back after the previous call promoted the non-first
\* child c of the same parent: prev is the original tree, m its first child
PromoteBackStep ==
    /\ op.name = "promote" /\ op'.name = "promote"
    /\ op'.parentId = op.parentId
    /\ op.parentId = RootSentinel \/ HasNode(prev, op.parentId)
    /\ FindIndex(GroupOf(prev, op.parentId), op.nodeId) > 1
    /\ op'.nodeId = GroupOf(prev, op.parentId)[1].id

\* C2 (as stated): promoting a non-first child c and then the former first
\* child m restores the original order and flags of the sibling list.
C2_RoundTripRestores ==
    [][PromoteBackStep =>
            OrderAndFlags(GroupOf(tree', op.parentId))
                = OrderAndFlags(GroupOf(prev, op.parentId))]_vars

\* C2 (amended): the round trip yields m at index 0 flagged mainline, c at
\* index 1 unflagged, then the other siblings in their original order with
\* their flags; it is the original list when c was at index 1 and m was the
\* only flagged sibling.
C2_RoundTripResult ==
    [][PromoteBackStep =>
        LET g == GroupOf(prev, op.parentId)
            k == FindIndex(g, op.nodeId)
            others == RemoveAt(Tail(g), k - 1)
            after == OrderAndFlags(GroupOf(tree', op.parentId))
        IN /\ after = <<<<g[1].id, TRUE>>, <<g[k].id, FALSE>>>> \o OrderAndFlags(others)
           /\ (k = 2 /\ g[1].isMainline /\ ~g[2].isMainline)
                => after = OrderAndFlags(g)]_vars

\* the former first child of a group of three or more has just been promoted
\* back from index 1, behind a child that was promoted before
C2_Witness ==
    /\ op.name = "promote"
    /\ LET g == GroupOf(prev, op.parentId)
       IN /\ Len(g) >= 3
          /\ FindIndex(g, op.nodeId) = 2
          /\ g[1].id > op.nodeId
          /\ GroupOf(tree, op.parentId)[1].id = op.nodeId

\* what C3 compares: nodes, sibling order, flags, comments and annotations
RECURSIVE Shape(_)
Shape(children) ==
    [i \in 1..Len(children) |->
        [id |-> children[i].id, san |-> children[i].san,
         isMainline |-> children[i].isMainline, comment |-> children[i].comment,
         arrows |-> children[i].arrows, highlights |-> children[i].highlights,
         children |-> Shape(children[i].children)]]

NoDuplicateSans(t) ==
    \A g \in SiblingGroups(t.children) :
        \A i, j \in 1..Len(g) : g[i].san = g[j].san => i = j

\* C3 (as stated): mergeTrees(T, T) is structurally equal to T.
C3_MergeSelfIsIdentity ==
    op.name = "mergeSelf" => Shape(mergeResult.children) = Shape(tree.children)

\* C3 (amended): mergeTrees(T, T) is structurally equal to T when no two
\* siblings of T share a notation.
C3_MergeSelfDistinctSans ==
    (op.name = "mergeSelf" /\ NoDuplicateSans(tree))
        => Shape(mergeResult.children) = Shape(tree.children)

\* a tree with a branch point and a nested node has been mergeResult with itself
C3_Witness ==
    /\ op.name = "mergeSelf"
    /\ NoDuplicateSans(tree)
    /\ \E g \in SiblingGroups(tree.children) : Len(g) >= 2
    /\ \E i \in 1..Len(tree.children) : Len(tree.children[i].children) > 0

\* C4: after inserts s1..sn, each under the node the previous one created,
\* extractAllLines returns exactly one line, with sanSequence s1..sn.
C4_SinglePathLine ==
    (path # NoPath /\ Len(path) > 0)
        => /\ Len(extractAllLines(tree)) = 1
           /\ extractAllLines(tree)[1].sanSequence = path

C4_Witness ==
    /\ path # NoPath
    /\ Len(path) = 3
    /\ op.name = "insert"

(***************************************************************************)
(* Properties of the scheduler.                                            *)
(***************************************************************************)
\* r is Math.round(interval * ease): within half of the exact product
IsRounded(r, interval, ease) ==
    /\ 100 * r - 50 <= interval * ease
    /\ interval * ease < 100 * r + 50

\* C9: a pass (quality >= 3) returns repetitions + 1 and interval 1, 6 or
\* round(interval x the ease factor passed in); a fail returns repetitions 0
\* and interval 1.
C9_IntervalAndRepetitions ==
    Called =>
        IF call.quality >= 3
        THEN /\ result.repetitions = call.repetitions + 1
             /\ call.repetitions = 0 => result.interval = 1
             /\ call.repetitions = 1 => result.interval = 6
             /\ call.repetitions > 1 =>
                    IsRounded(result.interval, call.interval, call.easeFactor)
        ELSE result.repetitions = 0 /\ result.interval = 1

\* a pass with repetitions >= 2 where the ease passed in and the updated ease
\* round to different intervals
C9_Witness ==
    /\ Called
    /\ call.quality >= 3
    /\ call.repetitions > 1
    /\ result.interval > 1
    /\ ~IsRounded(result.interval, call.interval, result.easeFactor)

\* C10: sm2 returns max(1.3, ease + 0.1 - (5-q)*(0.08 + (5-q)*0.02)) for a
\* pass and for a fail, and a card's ease factor never falls below 1.3.
C10_EaseFloor ==
    /\ Called =>
        LET d == 5 - call.quality
            updated == 1000 * call.easeFactor + 10000 - d * (8000 + d * 2000)
        IN /\ 1000 * result.easeFactor = (IF updated > 130000 THEN updated ELSE 130000)
           /\ result.easeFactor >= 130
    /\ card.easeFactor >= 130

\* a reviewed card whose ease factor was held at the minimum by a failed review
C10_Witness ==
    /\ Called
    /\ card.totalReviews >= 2
    /\ call.quality < 3
    /\ call.easeFactor + 10 - (5 - call.quality) * (8 + (5 - call.quality) * 2) < 130
    /\ card.easeFactor = 130

(***************************************************************************)
(* Properties of the parser.                                               *)
(***************************************************************************)
Words(seq) == [i \in 1..Len(seq) |-> Word(seq[i])]
WordAt(i) == IF pgnText[i].kind = "word" THEN pgnText[i].text ELSE ""
Done == pstate = "done"

\* the movetext is m1 m2 ( v1 v2 ) m3 and each move is legal where it stands
IsRavText ==
    /\ pgnText \in Instances(<<"m", "m", "(", "m", "m", ")", "m">>)
    /\ Legal(<<>>, WordAt(1))
    /\ Legal(<<WordAt(1)>>, WordAt(2))
    /\ Legal(<<WordAt(1)>>, WordAt(4))
    /\ Legal(<<WordAt(1), WordAt(4)>>, WordAt(5))
    /\ Legal(<<WordAt(1), WordAt(2)>>, WordAt(7))

\* nodes is exactly one node with the notation and flag, with k children
OneNode(nodes, san, mainline, k) ==
    /\ Len(nodes) = 1
    /\ nodes[1].san = san
    /\ nodes[1].isMainline = mainline
    /\ Len(nodes[1].children) = k

RavShape ==
    LET roots == ParsedTree.children
    IN /\ OneNode(roots, WordAt(1), TRUE, 2)
       /\ LET m2 == roots[1].children[1]
              v1 == roots[1].children[2]
          IN /\ m2.san = WordAt(2) /\ m2.isMainline
             /\ v1.san = WordAt(4) /\ ~v1.isMainline
             /\ m2.parentId = roots[1].id /\ v1.parentId = roots[1].id
             /\ OneNode(v1.children, WordAt(5), TRUE, 0)
             /\ OneNode(m2.children, WordAt(7), TRUE, 0)

\* C5: parsing m1 m2 ( v1 v2 ) m3 with all moves legal gives root m1 with the
\* children [m2 (mainline), v1 (not mainline)], v1 with the single child v2,
\* and m2 with the mainline child m3.
C5_RavShape == (Done /\ IsRavText) => RavShape

\* 1. e4 e5 (1... c5 2. Nf3) 2. Nf3 has been parsed
C5_Witness ==
    /\ Done
    /\ pgnText = Words(<<"e4", "e5", "(", "c5", "Nf3", ")", "Nf3">>)
    /\ IsRavText
    /\ moveCount = 5

IsWord(i, w) == pgnText[i].kind = "word" /\ pgnText[i].text = w
Z0At(k) ==
    /\ k \in 1..Len(pgnText)
    /\ IsWord(k, "Z0")
    /\ \A i \in 1..(k - 1) : ~IsWord(i, "Z0") /\ ~IsWord(i, "(") /\ ~IsWord(i, ")")
MovesBefore(k) == Cardinality({i \in 1..(k - 1) : WordAt(i) \in Moves})

\* C6: no move that follows a Z0 in the same scope is attached; in the main
\* scope the tree holds no more nodes than there are moves before the first Z0.
C6_NothingAfterNullMove ==
    Done => \A k \in 1..Len(pgnText) : Z0At(k) => moveCount <= MovesBefore(k)

\* the frame that opened the variation running in stack[i]
Opener(i) == stack[i - 1]
FenBefore(node) == Front(node.fen)

\* C7: every variation, the first at a branch point or a later one, starts
\* from the position before lastNode's move, and the enclosing scope goes on
\* from the position after lastNode's move.
C7_VariationStartsBeforeLastMove ==
    /\ \A i \in 2..Len(stack) :
            stack[i].startFen = FenBefore(LastNodeOf(Opener(i)))
    /\ (Parsing /\ Top.lastNode # NoId) => Top.chess.fen = LastNodeOf(Top).fen

AtIllegalMove ==
    /\ AtToken("move")
    /\ ~Legal(Top.chess.fen, tokens[posIdx].value)

\* C8: an illegal move token creates no node, leaves position and lastNode
\* as they are, moves the cursor on by one, and the parse keeps going.
C8_IllegalMoveDropped ==
    [][AtIllegalMove => (posIdx' = posIdx + 1 /\ stack' = stack /\ pstate' = "parsing")]_vars

\* C12: deleteSubtree with an id that is in no node, and promoteVariation
\* with a parent that is not found or a child that is not among that parent's
\* children, return a tree equal to the input tree.
C12_MissIsNoOp ==
    /\ (op.name = "delete" /\ op.nodeId \notin NodeIdsOf(prev.children)) => tree = prev
    /\ (op.name = "promote" /\ FindIndex(GroupOf(prev, op.parentId), op.nodeId) = 0)
            => tree = prev

\* promoteVariation was called on a tree of several nodes with an existing
\* parent and an existing node that is not a child of that parent
C12_Witness ==
    /\ op.name = "promote"
    /\ CountNodes(prev.children) >= 2
    /\ op.parentId \in NodeIdsOf(prev.children)
    /\ op.nodeId \in NodeIdsOf(prev.children)
    /\ FindIndex(GroupOf(prev, op.parentId), op.nodeId) = 0
    /\ tree = prev

RECURSIVE LeafPaths(_)
\* the leaves of a forest, each as the list of child indices leading to it
LeafPaths(children) ==
    UNION { IF Len(children[i].children) = 0 THEN {<<i>>}
            ELSE {<<i>> \o p : p \in LeafPaths(children[i].children)} :
                i \in 1..Len(children) }

\* the ids of the nodes met along an index path
IdsAlong(children, p) == [k \in 1..Len(p) |-> NodeAt(children, SubSeq(p, 1, k)).id]

\* p comes before q in depth-first sibling order
Before(p, q) ==
    \E k \in 1..Len(p) :
        /\ k <= Len(q)
        /\ SubSeq(p, 1, k - 1) = SubSeq(q, 1, k - 1)
        /\ p[k] < q[k]

\* C16: extractAllLines returns exactly one line per leaf: the i-th line is
\* the id path to the i-th leaf in depth-first sibling order, every
\* root-to-leaf path appears once, and an empty tree yields no lines.
C16_OneLinePerLeaf ==
    LET lines == extractAllLines(tree)
        leaves == LeafPaths(tree.children)
    IN /\ Len(lines) = Cardinality(leaves)
       /\ Len(lines) = countLines(tree)
       /\ \A p \in leaves :
            LET i == Cardinality({q \in leaves : Before(q, p)}) + 1
            IN lines[i].moveNodeIds = IdsAlong(tree.children, p)
       /\ (tree.children = <<>>) => (lines = <<>>)

\* a tree with two leaves at different depths
C16_Witness ==
    /\ Cardinality(LeafPaths(tree.children)) = 2
    /\ CountNodes(tree.children) = 3
    /\ \E p \in LeafPaths(tree.children) : Len(p) = 2
    /\ Len(extractAllLines(tree)) = 2

\* C18: processReview stores interval, repetitions and easeFactor exactly as
\* sm2 returns them for the card's prior state and the attempt's quality,
\* whatever the random draw; the draw moves only the due date, within 5% of
\* the interval, and only when the new interval is greater than 1.
C18_FuzzOnlyOnDueDate ==
    [][card' # card =>
        LET r == sm2([quality |-> call'.quality, repetitions |-> card.repetitions,
                      easeFactor |-> card.easeFactor, interval |-> card.interval])
        IN /\ card'.interval = r.interval
           /\ card'.repetitions = r.repetitions
           /\ card'.easeFactor = r.easeFactor
           /\ r.interval <= 1 => card'.dueOffset = r.interval
           /\ r.interval > 1 =>
                /\ 1000 * card'.dueOffset + 500 > 950 * r.interval
                /\ 1000 * card'.dueOffset - 500 <= 1050 * r.interval]_vars

\* a review whose due date the draw moved away from the stored interval
C18_Witness ==
    /\ card.totalReviews > 0
    /\ card.interval > 1
    /\ card.interval = result.interval
    /\ card.dueOffset # card.interval

\* C19: deriveQuality returns 5 for no mistakes and no hints, 4 for no
\* mistakes and some hints, 3 for one mistake, 2 for two, 1 for three or more,
\* whatever the hints once there is a mistake; always an integer in 1..5.
C19_DeriveQualityTable ==
    derived.quality # NotCalled =>
        /\ derived.quality \in 1..5
        /\ (derived.mistakes = 0 /\ derived.hintsUsed = 0) => derived.quality = 5
        /\ (derived.mistakes = 0 /\ derived.hintsUsed > 0) => derived.quality = 4
        /\ derived.mistakes = 1 => derived.quality = 3
        /\ derived.mistakes = 2 => derived.quality = 2
        /\ derived.mistakes >= 3 => derived.quality = 1

\* deriveQuality returned 4: no mistakes, hints used
C19_Witness ==
    /\ derived.quality = 4
    /\ derived.mistakes = 0
    /\ derived.hintsUsed > 1

(***************************************************************************)
(* Properties of the tree operations on objects.                           *)
(***************************************************************************)
\* C11: insertMove, deleteSubtree, promoteVariation and mergeTrees never
\* modify their input trees: every tree obtained earlier, the imported tree
\* passed to mergeTrees included, still reads as it did when it was obtained.
C11_InputsUntouched ==
    \A i \in 1..Len(held) : TreeValue(heap, held[i].ref) = held[i].value

\* two held trees have a root node object in common
SharesObjects(i, j) ==
    RangeOf(ItemsOf(heap, heap[held[i].ref].children))
        \cap RangeOf(ItemsOf(heap, heap[held[j].ref].children)) # {}

\* a tree that shares a root node object with an earlier tree was the input
\* of an insertMove below a node, which returned a different tree
C11_Witness ==
    /\ Len(held) = MaxHeld
    /\ heapOp.name = "insert" /\ heapOp.nodeId # NoId
    /\ \E j \in 1..(heapOp.input - 1) : SharesObjects(heapOp.input, j)
    /\ held[heapOp.input].value # held[Len(held)].value

\* the mainline rule for a whole tree
SatisfiesMainline(t) ==
    \A group \in SiblingGroups(t.children) : ExactlyOneMainlineFirst(group)

\* C13: when both trees satisfy the mainline rule, mergeTrees(existing,
\* imported) satisfies it too: every non-empty sibling group of the merged
\* tree has exactly one isMainline member, at index 0.
C13_MergeKeepsMainline ==
    (/\ heapOp.name = "merge"
     /\ SatisfiesMainline(held[heapOp.input].value)
     /\ SatisfiesMainline(held[heapOp.imported].value))
        => SatisfiesMainline(held[Len(held)].value)

(***************************************************************************)
(* More properties of the parser.                                          *)
(***************************************************************************)
RECURSIVE PlyFollowsParent(_, _)
\* every node of the list has plyFromRoot parentPly + 1, and so on below it
PlyFollowsParent(children, parentPly) ==
    \A i \in 1..Len(children) :
        /\ children[i].plyFromRoot = parentPly + 1
        /\ PlyFollowsParent(children[i].children, children[i].plyFromRoot)

\* C14: in every tree parseGame produces, root nodes have plyFromRoot 1 and
\* every child has its parent's plyFromRoot plus 1, inside variations and
\* after a closed variation too.
C14_PlyIncreasesByOne == Done => PlyFollowsParent(ParsedTree.children, 0)

(***************************************************************************)
(* Properties of the repertoire store.                                     *)
(***************************************************************************)
\* C15: after every store operation that changes the tree (addMove,
\* deleteMove, promoteVariation, importTree, setOpeningName) the stored lines
\* are extractAllLines of the current tree, up to line ids.
C15_LinesFollowTree ==
    storeOp.name # "none" => WithoutIds(repLines) = extractAllLines(repTree)

\* C20: in the main scope a close-variation token with no matching
\* open-variation is consumed without effect: the main scope goes on and
\* later legal moves are still attached.
C20_StrayCloseIgnored ==
    [][(AtToken("closeParen") /\ Len(stack) = 1)
            => (posIdx' = posIdx + 1 /\ stack' = stack /\ pstate' = "parsing")]_vars

(***************************************************************************)
(* Properties of parseMultiGamePGN.                                        *)
(***************************************************************************)
\* the lines at which a new game starts: [Event lines with something before
AnyNonBlank == \E j \in 1..Len(fileLines) : NonBlank(fileLines[j])
Cuts ==
    {i \in 1..Len(fileLines) :
        fileLines[i].event /\ \E j \in 1..(i - 1) : NonBlank(fileLines[j])}
GameStarts == Cuts \cup {1}
GameCount == IF AnyNonBlank THEN Cardinality(GameStarts) ELSE 0
GameStart(k) == CHOOSE x \in GameStarts : Cardinality({y \in GameStarts : y < x}) = k - 1
GameEnd(k) == IF k = GameCount THEN Len(fileLines) ELSE GameStart(k + 1) - 1

\* the movetext of the k-th game of the file
GameText(k) == MovetextOf(SubSeq(fileLines, GameStart(k), GameEnd(k)))

HasMove(text) == \E i \in 1..Len(text) : text[i].kind = "word" /\ text[i].text \in Moves

RECURSIVE PlaysFrom(_, _)
\* the text is made of moves only, each legal where it stands
PlaysFrom(fen, text) ==
    \/ text = <<>>
    \/ /\ Head(text).kind = "word"
       /\ Legal(fen, Head(text).text)
       /\ PlaysFrom(Append(fen, Head(text).text), Tail(text))

GameReturned(k) == \E i \in 1..Len(parsed) : parsed[i].game = k
ParsedToMoves(k) == outcomes[k].status = "done" /\ outcomes[k].moveCount > 0

\* C17: parseMultiGamePGN returns, in input order, exactly the games that
\* parse to at least one move: each returned game has moveCount > 0, a game
\* without moves is left out, and a game with moves is never left out
\* because another game was empty.
C17_BatchKeepsGamesWithMoves ==
    bstate = "returned" =>
        /\ Len(outcomes) = GameCount
        /\ \A i \in 1..Len(parsed) :
                /\ parsed[i].moveCount > 0
                /\ parsed[i].moveCount = CountNodes(parsed[i].tree.children)
        /\ \A i \in 1..Len(parsed), j \in 1..Len(parsed) :
                i < j => parsed[i].game < parsed[j].game
        /\ \A k \in 1..GameCount :
                /\ GameReturned(k) <=> ParsedToMoves(k)
                /\ ~HasMove(GameText(k)) => ~GameReturned(k)
                /\ (GameText(k) # <<>> /\ PlaysFrom(STARTING_FEN, GameText(k)))
                        => GameReturned(k)

\* three games, the middle one without moves, the other two returned
C17_Witness ==
    /\ bstate = "returned"
    /\ GameCount = 3
    /\ ~HasMove(GameText(2))
    /\ Len(parsed) = 2
    /\ parsed[1].game = 1
    /\ parsed[2].game = 3

\* the movetext starts with a legal move followed by a comment that embeds
\* [%cal ...] and [%csl ...]
StartsWithAnnotatedMove ==
    /\ Len(pgnText) >= 2
    /\ Legal(STARTING_FEN, WordAt(1))
    /\ pgnText[2] = ArrowComment

\* C21: when a comment after a legal move embeds [%cal a,b] and [%csl c],
\* the move's node ends with a and b in its arrows, c in its highlights and
\* the free text, without the directives, in its comment.
C21_DirectivesExtracted ==
    (Done /\ StartsWithAnnotatedMove) =>
        LET node == ParsedTree.children[1]
        IN /\ {"Ge2e4", "Gd2d4"} \subseteq RangeOf(node.arrows)
           /\ "Rf7" \in RangeOf(node.highlights)
           /\ SubSeq(node.comment, 1, 1) = <<"plan">>

\* every sibling list of a forest, keyed by the id of the node that holds it
\* (the root sentinel for the root list), as order and flags
RECURSIVE GroupsByParent(_, _)
GroupsByParent(parentKey, children) ==
    {<<parentKey, OrderAndFlags(children)>>}
        \cup UNION { GroupsByParent(children[i].id, children[i].children) :
                        i \in 1..Len(children) }

AllGroups(t) == GroupsByParent(RootSentinel, t.children)

\* C22: promoteVariation on a child at index k > 0 of the parent's children
\* puts it at index 0 flagged mainline, unflags the former first sibling,
\* keeps the other siblings in their relative order with their flags and
\* leaves every other sibling list as it was; a child already at index 0
\* leaves the tree unchanged.
C22_PromoteMovesToFront ==
    (op.name = "promote"
        /\ (op.parentId = RootSentinel \/ HasNode(prev, op.parentId))) =>
        LET g == GroupOf(prev, op.parentId)
            k == FindIndex(g, op.nodeId)
            expected == <<<<g[k].id, TRUE>>, <<g[1].id, FALSE>>>>
                            \o OrderAndFlags(SubSeq(g, 2, k - 1))
                            \o OrderAndFlags(SubSeq(g, k + 1, Len(g)))
        IN /\ k > 1 =>
                AllGroups(tree) =
                    (AllGroups(prev) \ {<<op.parentId, OrderAndFlags(g)>>})
                        \cup {<<op.parentId, expected>>}
           /\ k = 1 => tree = prev

\* the last of three siblings has just been promoted
C22_Witness ==
    /\ op.name = "promote"
    /\ LET g == GroupOf(prev, op.parentId)
       IN /\ Len(g) = 3
          /\ FindIndex(g, op.nodeId) = 3
          /\ GroupOf(tree, op.parentId)[1].id = op.nodeId

\* ids of the node and of all its descendants, {} when no node has the id
SubtreeIds(t, nodeId) ==
    IF HasNode(t, nodeId)
    THEN {nodeId} \cup NodeIdsOf(findNode(t, nodeId).children)
    ELSE {}

\* C23: deleteSubtree returns exactly the nodes that are neither the node nor
\* one of its descendants, each under the same parent, in the same relative
\* sibling order and with the same isMainline value; no sibling is promoted.
C23_DeleteKeepsTheRest ==
    op.name = "delete" =>
        LET gone == SubtreeIds(prev, op.nodeId)
            kept == {e \in AllGroups(prev) : e[1] \notin gone}
        IN AllGroups(tree) =
            { <<e[1], SelectSeq(e[2], LAMBDA x : x[1] # op.nodeId)>> : e \in kept }

\* a mainline node that had a child and a sibling has just been deleted
C23_Witness ==
    /\ op.name = "delete"
    /\ HasNode(prev, op.nodeId)
    /\ findNode(prev, op.nodeId).isMainline
    /\ findNode(prev, op.nodeId).children # <<>>
    /\ Len(SiblingsOf(prev, op.nodeId)) > 1
    /\ tree.children # <<>>

(***************************************************************************)
(* mergeTrees, level by level.                                             *)
(***************************************************************************)
\* the imported children with the notation, in import order
Matching(imported, san) == SelectSeq(imported, LAMBDA c : c.san = san)

\* a field after the merge: the node's own value when it has one, else the
\* first non-empty value the matching imported children offer, else empty
Filled(own, offers) ==
    IF own # <<>> THEN own
    ELSE LET given == SelectSeq(offers, LAMBDA v : v # <<>>)
         IN IF given = <<>> THEN <<>> ELSE given[1]

\* positions of the imported children that no existing child matches
Unmatched(existing, imported) ==
    SelectSeq([j \in 1..Len(imported) |-> j],
              LAMBDA j : \A i \in 1..Len(existing) : existing[i].san # imported[j].san)

\* the unmatched positions whose notation no earlier imported child has
FirstUnmatched(existing, imported) ==
    SelectSeq(Unmatched(existing, imported),
              LAMBDA j : \A k \in 1..(j - 1) : imported[k].san # imported[j].san)

RECURSIVE MergedLevel(_, _, _)
\* merged is existing followed by one node per new notation of imported
MergedLevel(existing, imported, merged) ==
    LET n == Len(existing)
        new == FirstUnmatched(existing, imported)
    IN /\ Len(merged) = n + Len(new)
       /\ \A i \in 1..n :
            LET e == existing[i]
                m == merged[i]
                ms == IF \A k \in 1..(i - 1) : existing[k].san # e.san
                      THEN Matching(imported, e.san) ELSE <<>>
                offers(f) == [k \in 1..Len(ms) |-> ms[k][f]]
            IN /\ m.id = e.id /\ m.san = e.san /\ m.isMainline = e.isMainline
               /\ m.comment = Filled(e.comment, offers("comment"))
               /\ m.arrows = Filled(e.arrows, offers("arrows"))
               /\ m.highlights = Filled(e.highlights, offers("highlights"))
               /\ Len(ms) = 0 => m.children = e.children
               /\ Len(ms) = 1 => MergedLevel(e.children, ms[1].children, m.children)
       /\ \A k \in 1..Len(new) :
            LET c == imported[new[k]]
                m == merged[n + k]
                ms == Matching(imported, c.san)
            IN /\ m.id = c.id /\ m.san = c.san /\ m.isMainline = FALSE
               /\ Len(ms) = 1 => m = [c EXCEPT !.isMainline = FALSE]
               /\ Len(ms) = 2 => MergedLevel(c.children, ms[2].children, m.children)

\* C24 (as stated): every imported child whose notation matches no existing
\* child of the level is appended after the existing children, unflagged,
\* in import order.
C24_EveryUnmatchedAppended ==
    heapOp.name = "merge" =>
        LET existing == held[heapOp.input].value.children
            imported == held[heapOp.imported].value.children
            merged == held[Len(held)].value.children
            new == Unmatched(existing, imported)
        IN /\ Len(merged) = Len(existing) + Len(new)
           /\ \A k \in 1..Len(new) :
                /\ merged[Len(existing) + k].id = imported[new[k]].id
                /\ ~merged[Len(existing) + k].isMainline

\* C24 (amended): at every level each existing child keeps its index, id and
\* isMainline; a matched child keeps its own comment, arrows and highlights
\* when non-empty and takes the imported ones only where its own are empty;
\* the imported children whose notation matches no existing child are
\* appended after the existing ones, unflagged, in import order, one node
\* per notation: a later imported child with the same notation is merged
\* into the appended node.
C24_MergeLevelByLevel ==
    heapOp.name = "merge" =>
        MergedLevel(held[heapOp.input].value.children,
                    held[heapOp.imported].value.children,
                    held[Len(held)].value.children)

\* a merge whose existing root child took the comment and arrows of the
\* imported child with its notation, and got that child's child appended
C24_Witness ==
    /\ heapOp.name = "merge"
    /\ LET existing == held[heapOp.input].value.children
           imported == held[heapOp.imported].value.children
           merged == held[Len(held)].value.children
       IN /\ Len(existing) = 1 /\ Len(imported) >= 1
          /\ existing[1].san = imported[1].san
          /\ existing[1].id # imported[1].id
          /\ existing[1].comment = <<>> /\ merged[1].comment = <<"good">>
          /\ merged[1].arrows = <<"Ge2e4">>
          /\ existing[1].children = <<>> /\ Len(merged[1].children) = 1

(***************************************************************************)
(* Properties of the drill session.                                        *)
(***************************************************************************)
Occurrences(seq, x) == Cardinality({i \in 1..Len(seq) : seq[i] = x})

\* C25: under every interleaving of the final correct move, whose completion
\* the feedback timer defers, the auto-play timer and Skip, each presented
\* line is completed at most once: completeLine runs at most once per line.
C25_CompletedAtMostOnce ==
    \A l \in 1..MaxDrillLines :
        /\ Occurrences(linesCompleted, l) <= 1
        /\ Occurrences(sessionResults, l) <= 1

\* the opponent is to move in a line that is being played
OpponentToMove ==
    /\ drillStatus = "playing"
    /\ currentLine # NoLine
    /\ ~isUserTurn(userColor, currentLine, currentPlyIndex)
    /\ currentPlyIndex < lineLength

\* C26: whenever the drill is playing and it is the opponent's turn at a ply
\* below the line's length, the auto-play timer eventually fires and
\* currentPlyIndex advances (unless the line is left first): the cleanup that
\* the effect's own waitingForOpponent update triggers does not cancel it.
C26_AutoPlayAdvances ==
    \A p \in 0..MaxPly :
        (OpponentToMove /\ currentPlyIndex = p)
            ~> (currentPlyIndex > p \/ drillStatus # "playing")

(***************************************************************************)
(* Properties of the repertoire page and the SRS cards.                    *)
(***************************************************************************)
\* C29: after handleImport or a piece drop that adds a move, every stored
\* line of the repertoire has an SRS card.
C29_StoredLinesHaveCards ==
    storeOp.name \in {"handleImport", "handlePieceDrop"} =>
        \A i \in 1..Len(repLines) :
            NewSrsCard(repLines[i].id, SelectedRep) \in cards

\* C30: deleteRepertoire(id) leaves no card with repertoireId id and keeps
\* the cards of the other repertoires; no other operation removes a card.
C30_OnlyDeleteRemovesCards ==
    [][IF repertoires' # repertoires
       THEN cards' = {c \in cards : c.repertoireId \in repertoires'}
       ELSE cards \subseteq cards']_vars

(***************************************************************************)
(* Parent links.                                                           *)
(***************************************************************************)
RECURSIVE ParentLinksHold(_, _)
\* every node of the list has the parentId, and its children have its id
ParentLinksHold(children, parentId) ==
    \A i \in 1..Len(children) :
        /\ children[i].parentId = parentId
        /\ ParentLinksHold(children[i].children, children[i].id)

\* C27: in every tree that parseGame, insertMove under an existing parent,
\* deleteSubtree, promoteVariation and mergeTrees produce, each node's
\* parentId is the id of the node whose children hold it, null at the root.
C27_ParentLinksConsistent ==
    \A i \in 1..Len(held) : ParentLinksHold(held[i].value.children, NoId)

\* C28: for every insertMove call, a parentId that no node has included,
\* the returned newNode is a node of the returned tree, the last child of
\* the parent (of the root list for a null parentId).
C28_NewNodeInTree ==
    op.name = "insert" =>
        /\ HasNode(tree, op.newId)
        /\ GroupOf(tree, op.parentId) # <<>>
        /\ Last(GroupOf(tree, op.parentId)).id = op.newId

====
